---- MODULE Spec2Model ----
(***************************************************************************)
(* Level Graph (class Graph of src/app.py) and the graph-maintenance       *)
(* algorithms of GraphEditorApp that work on the graph of the current      *)
(* floor: merge_two_nodes, auto_merge_nearby_nodes, simplify_paths and     *)
(* the path tracing of canvas_click / canvas_drag / canvas_release.        *)
(*                                                                         *)
(* Coordinates are fixed-point numbers: an integer v stands for v / Scale  *)
(* pixels.  Distances are carried as their squares (sqrt is monotone, so   *)
(* every comparison of the source is made on the squares); an edge weight  *)
(* is stored as the square of the weight.                                  *)
(***************************************************************************)
EXTENDS Integers, Sequences, FiniteSets, TLC

VARIABLES
    graph,           \* self.graph: [nodes, edges, next_node_id]
    last_path_node,  \* self.last_path_node: id of the node, None when unset
    is_simulating,   \* self.is_simulating
    op,              \* the operation that produced the state, with its result
    steps,           \* number of handlers run so far
    floors,          \* self.floors: the floors in the order of the dict, each
                     \* [num, graph, rooms, elevators, room_counter, elevator_counter]
    current_floor,   \* self.current_floor
    nav_start_point, \* self.nav_start_point: [floor, type, data], None when unset
    nav_end_point    \* self.nav_end_point

vars == <<graph, last_path_node, is_simulating, op, steps,
          floors, current_floor, nav_start_point, nav_end_point>>

(***************************************************************************)
(* Bounds of the model.                                                    *)
(***************************************************************************)
MaxSteps == 6       \* handlers run in one behaviour of the editor

(***************************************************************************)
(* Representation.                                                         *)
(***************************************************************************)
None == -1                      \* Python None for ids and weights
Scale == 2 * 2 * 2              \* model units per pixel
Px(v) == v * Scale
Sq(v) == v * v

EmptyLabel == <<>>              \* label ""
startswith(label, prefix) == label[1] = prefix

\* Node.__init__: label or f"N{node_id}"
Node(x, y, node_id, label) ==
    [x |-> x, y |-> y, id |-> node_id,
     label |-> IF label = EmptyLabel THEN <<"N", node_id>> ELSE label]

\* Edge.__init__
Edge(node1_id, node2_id, weight) ==
    [node1_id |-> node1_id, node2_id |-> node2_id, weight |-> weight]

\* Node.distance_to, squared
distance_to(n1, n2) == Sq(n1.x - n2.x) + Sq(n1.y - n2.y)

\* Graph.__init__
NewGraph == [nodes |-> <<>>, edges |-> <<>>, next_node_id |-> 1]

(***************************************************************************)
(* self.nodes is a dict: a sequence of nodes in insertion order, one per   *)
(* id.                                                                     *)
(***************************************************************************)
NodeIds(g) == {g.nodes[i].id : i \in DOMAIN g.nodes}
HasNode(g, id) == \E i \in DOMAIN g.nodes : g.nodes[i].id = id
NodeOf(g, id) == g.nodes[CHOOSE i \in DOMAIN g.nodes : g.nodes[i].id = id]

\* self.nodes[node.id] = node
DictSet(ns, node) ==
    IF \E i \in DOMAIN ns : ns[i].id = node.id
    THEN [i \in DOMAIN ns |-> IF ns[i].id = node.id THEN node ELSE ns[i]]
    ELSE Append(ns, node)

\* del self.nodes[node_id]
DictDel(ns, node_id) == SelectSeq(ns, LAMBDA n : n.id # node_id)

Touches(e, id) == e.node1_id = id \/ e.node2_id = id
OtherEnd(e, id) == IF e.node1_id = id THEN e.node2_id ELSE e.node1_id
SameEdge(e, id1, id2) ==
    \/ e.node1_id = id1 /\ e.node2_id = id2
    \/ e.node1_id = id2 /\ e.node2_id = id1

(***************************************************************************)
(* class Graph                                                             *)
(***************************************************************************)
\* Graph.add_node: the new graph; the node returned has id g.next_node_id
add_node(g, x, y, label) ==
    [g EXCEPT !.nodes = DictSet(@, Node(x, y, g.next_node_id, label)),
              !.next_node_id = @ + 1]

\* the add_edge of a graph that does not look for an existing edge
add_edge_NoLookup(g, node1_id, node2_id, weight) ==
    IF ~HasNode(g, node1_id) \/ ~HasNode(g, node2_id)
    THEN [graph |-> g, raised |-> TRUE, ret |-> None]
    ELSE [graph |-> [g EXCEPT !.edges = Append(@, Edge(node1_id, node2_id,
                         IF weight = None
                         THEN distance_to(NodeOf(g, node1_id), NodeOf(g, node2_id))
                         ELSE weight))],
          raised |-> FALSE, ret |-> Len(g.edges) + 1]

\* the add_edge of a graph that does not check its endpoints
add_edge_NoCheck(g, node1_id, node2_id, weight) ==
    IF \E i \in DOMAIN g.edges : SameEdge(g.edges[i], node1_id, node2_id)
    THEN [graph |-> g, raised |-> FALSE,
          ret |-> CHOOSE i \in DOMAIN g.edges :
                     /\ SameEdge(g.edges[i], node1_id, node2_id)
                     /\ \A j \in 1..(i - 1) : ~SameEdge(g.edges[j], node1_id, node2_id)]
    ELSE [graph |-> [g EXCEPT !.edges = Append(@, Edge(node1_id, node2_id,
                         IF weight = None THEN None ELSE weight))],
          raised |-> FALSE, ret |-> Len(g.edges) + 1]

\* Graph.add_edge: raised = ValueError; ret = position in self.edges of the
\* Edge object returned
add_edge(g, node1_id, node2_id, weight) ==
    IF ~HasNode(g, node1_id) \/ ~HasNode(g, node2_id)
    THEN [graph |-> g, raised |-> TRUE, ret |-> None]
    ELSE IF \E i \in DOMAIN g.edges : SameEdge(g.edges[i], node1_id, node2_id)
    THEN [graph |-> g, raised |-> FALSE,
          ret |-> CHOOSE i \in DOMAIN g.edges :
                     /\ SameEdge(g.edges[i], node1_id, node2_id)
                     /\ \A j \in 1..(i - 1) : ~SameEdge(g.edges[j], node1_id, node2_id)]
    ELSE [graph |-> [g EXCEPT !.edges = Append(@, Edge(node1_id, node2_id,
                         IF weight = None
                         THEN distance_to(NodeOf(g, node1_id), NodeOf(g, node2_id))
                         ELSE weight))],
          raised |-> FALSE, ret |-> Len(g.edges) + 1]

\* Graph.remove_node
remove_node(g, node_id) ==
    IF HasNode(g, node_id)
    THEN [g EXCEPT !.nodes = DictDel(@, node_id),
                   !.edges = SelectSeq(@, LAMBDA e : e.node1_id # node_id /\ e.node2_id # node_id)]
    ELSE g

\* Graph.remove_edge
remove_edge(g, node1_id, node2_id) ==
    [g EXCEPT !.edges = SelectSeq(@, LAMBDA e : ~SameEdge(e, node1_id, node2_id))]

\* GraphEditorApp.edge_exists
edge_exists(g, node1_id, node2_id) ==
    \E i \in DOMAIN g.edges : SameEdge(g.edges[i], node1_id, node2_id)

(***************************************************************************)
(* Geometry                                                                *)
(***************************************************************************)
Abs(v) == IF v < 0 THEN -v ELSE v

\* c^2 > (t^2) * l for c >= 0, t > 0, l > 0, computed without leaving the
\* 32-bit integers: with c = t*a + b, c^2 - t^2*l = t^2*(a^2 - l) + 2*t*a*b + b^2
SqExceeds(c, t, l) ==
    LET a == c \div t
        b == c % t
    IN  IF Sq(a) >= l THEN Sq(a) > l \/ b > 0
        ELSE IF Sq(a + 1) <= l THEN FALSE
        ELSE 2 * t * a * b + Sq(b) > Sq(t) * (l - Sq(a))

\* GraphEditorApp.point_to_line_distance(px, py, x1, y1, x2, y2) > limit pixels
point_to_line_distance_exceeds(px, py, x1, y1, x2, y2, limit) ==
    LET dx == x2 - x1
        dy == y2 - y1
        dot == (px - x1) * dx + (py - y1) * dy
        len2 == dx * dx + dy * dy
    IN  IF dx = 0 /\ dy = 0 THEN Sq(px - x1) + Sq(py - y1) > Sq(Px(limit))
        ELSE IF dot <= 0 THEN Sq(px - x1) + Sq(py - y1) > Sq(Px(limit))       \* t = 0
        ELSE IF dot >= len2 THEN Sq(px - x2) + Sq(py - y2) > Sq(Px(limit))    \* t = 1
        ELSE SqExceeds(Abs((px - x1) * dy - (py - y1) * dx), Px(limit), len2)

\* GraphEditorApp.lines_intersect
ccw(ax, ay, bx, by, cx, cy) == (cy - ay) * (bx - ax) > (by - ay) * (cx - ax)

lines_intersect(x1, y1, x2, y2, x3, y3, x4, y4) ==
    /\ ccw(x1, y1, x3, y3, x4, y4) # ccw(x2, y2, x3, y3, x4, y4)
    /\ ccw(x1, y1, x2, y2, x3, y3) # ccw(x1, y1, x2, y2, x4, y4)

\* GraphEditorApp.get_intersection_point: <<>> is None; the point is rounded
\* down to the model unit
get_intersection_point(x1, y1, x2, y2, x3, y3, x4, y4) ==
    LET denom0 == (x1 - x2) * (y3 - y4) - (y1 - y2) * (x3 - x4)
        t0 == (x1 - x3) * (y3 - y4) - (y1 - y3) * (x3 - x4)
        u0 == -((x1 - x2) * (y1 - y3) - (y1 - y2) * (x1 - x3))
        sgn == IF denom0 < 0 THEN -1 ELSE 1
        denom == sgn * denom0
        t == sgn * t0
        u == sgn * u0
    IN  IF denom0 = 0 THEN <<>>
        ELSE IF 0 <= t /\ t <= denom /\ 0 <= u /\ u <= denom
        THEN <<x1 + (t * (x2 - x1)) \div denom, y1 + (t * (y2 - y1)) \div denom>>
        ELSE <<>>

(***************************************************************************)
(* Graph maintenance                                                       *)
(***************************************************************************)
\* the loop "for node1_id, node2_id in edges_to_add: self.graph.add_edge(...)"
\* of merge_two_nodes; it ends at the first add_edge that raises
RECURSIVE add_edges(_, _)
add_edges(g, pairs) ==
    IF pairs = <<>> THEN [graph |-> g, raised |-> FALSE]
    ELSE LET r == add_edge(g, pairs[1][1], pairs[1][2], None)
         IN  IF r.raised THEN [graph |-> r.graph, raised |-> TRUE]
             ELSE add_edges(r.graph, Tail(pairs))

\* a merge_two_nodes that forgets to delete remove_node
merge_two_nodes_KeepsRemoved(g, keep_id, remove_id) ==
    IF keep_id = remove_id \/ ~HasNode(g, keep_id) \/ ~HasNode(g, remove_id)
    THEN [graph |-> g, raised |-> FALSE]
    ELSE LET touching == SelectSeq(g.edges, LAMBDA e : Touches(e, remove_id))
             rerouted == SelectSeq(touching, LAMBDA e :
                             /\ OtherEnd(e, remove_id) # keep_id
                             /\ ~edge_exists(g, keep_id, OtherEnd(e, remove_id)))
             edges_to_add == [i \in DOMAIN rerouted |->
                                 <<keep_id, OtherEnd(rerouted[i], remove_id)>>]
             g2 == [g EXCEPT !.edges = SelectSeq(@, LAMBDA e : ~Touches(e, remove_id))]
         IN  add_edges(g2, edges_to_add)

\* GraphEditorApp.merge_two_nodes(keep_node, remove_node); raised = add_edge
\* raised ValueError and the handler was left half-way
merge_two_nodes(g, keep_id, remove_id) ==
    IF keep_id = remove_id THEN [graph |-> g, raised |-> FALSE]
    ELSE IF ~HasNode(g, keep_id) \/ ~HasNode(g, remove_id)
    THEN [graph |-> g, raised |-> FALSE]
    ELSE LET keep_node == NodeOf(g, keep_id)
             removed == NodeOf(g, remove_id)
             moved == [keep_node EXCEPT !.x = (keep_node.x + removed.x) \div 2,
                                        !.y = (keep_node.y + removed.y) \div 2]
             g1 == [g EXCEPT !.nodes = DictSet(@, moved)]
             touching == SelectSeq(g.edges, LAMBDA e : Touches(e, remove_id))
             rerouted == SelectSeq(touching, LAMBDA e :
                             /\ OtherEnd(e, remove_id) # keep_id
                             /\ ~edge_exists(g, keep_id, OtherEnd(e, remove_id)))
             edges_to_add == [i \in DOMAIN rerouted |->
                                 <<keep_id, OtherEnd(rerouted[i], remove_id)>>]
             g2 == [g1 EXCEPT !.edges = SelectSeq(@, LAMBDA e : ~Touches(e, remove_id))]
             r3 == add_edges(g2, edges_to_add)
             g3 == r3.graph
             keep_connections ==
                 Cardinality({i \in DOMAIN g3.edges : Touches(g3.edges[i], keep_id)})
             x_count ==
                 Cardinality({i \in DOMAIN g3.nodes : startswith(g3.nodes[i].label, "X")})
             g4 == IF ~startswith(moved.label, "X") /\ keep_connections > 2
                   THEN [g3 EXCEPT !.nodes =
                            DictSet(@, [moved EXCEPT !.label = <<"X", x_count + 1>>])]
                   ELSE g3
         IN  IF r3.raised THEN [graph |-> g3, raised |-> TRUE]
             ELSE [graph |-> [g4 EXCEPT !.nodes = DictDel(@, remove_id)],
                   raised |-> FALSE]

\* the pairs (i, j), i < j, of positions in list(self.graph.nodes.values())
\* whose nodes are closer than merge_radius
ClosePairs(g, merge_radius) ==
    {p \in (DOMAIN g.nodes) \X (DOMAIN g.nodes) :
        /\ p[1] < p[2]
        /\ distance_to(g.nodes[p[1]], g.nodes[p[2]]) < Sq(Px(merge_radius))}

\* the first of them in the order of the two nested loops
FirstPair(pairs) ==
    CHOOSE p \in pairs : \A q \in pairs :
        p[1] < q[1] \/ (p[1] = q[1] /\ p[2] <= q[2])

\* the "while True" loop of auto_merge_nearby_nodes.  scans counts the passes
\* of the loop body; the unrolling stops after limit passes (exhausted).
RECURSIVE auto_merge_loop(_, _, _, _, _)
auto_merge_loop(g, merge_radius, merged_count, scans, limit) ==
    LET pairs == ClosePairs(g, merge_radius)
    IN  IF pairs = {}
        THEN [graph |-> g, merged_count |-> merged_count, scans |-> scans + 1,
              raised |-> FALSE, exhausted |-> FALSE]
        ELSE IF scans >= limit
        THEN [graph |-> g, merged_count |-> merged_count, scans |-> scans,
              raised |-> FALSE, exhausted |-> TRUE]
        ELSE LET p == FirstPair(pairs)
                 m == merge_two_nodes(g, g.nodes[p[1]].id, g.nodes[p[2]].id)
             IN  IF m.raised
                 THEN [graph |-> m.graph, merged_count |-> merged_count,
                       scans |-> scans + 1, raised |-> TRUE, exhausted |-> FALSE]
                 ELSE auto_merge_loop(m.graph, merge_radius, merged_count + 1,
                                      scans + 1, limit)

\* an auto_merge_nearby_nodes that merges the first close pair and returns
\* without scanning again
auto_merge_nearby_nodes_OnePass(g, merge_radius) ==
    LET r == auto_merge_loop(g, merge_radius, 0, 0, 1)
    IN  [r EXCEPT !.exhausted = FALSE]

\* GraphEditorApp.auto_merge_nearby_nodes(merge_radius)
auto_merge_nearby_nodes(g, merge_radius) ==
    auto_merge_loop(g, merge_radius, 0, 0, Len(g.nodes) + 3)

\* program constants of the maintenance algorithms
max_distance_from_line == 15
min_edge_length == 50
min_crossing_distance == 20
path_threshold == 30
nearby_radius == 28             \* self.merge_radius * 0.7
release_merge_radius == 12      \* self.merge_radius * 0.3

\* [e for e in self.graph.edges if e.node1_id == node.id or e.node2_id == node.id]
connected_edges(g, node_id) == SelectSeq(g.edges, LAMBDA e : Touches(e, node_id))

\* simplify_paths, step 1: the node goes into important_nodes
IsImportant(g, node) ==
    LET ce == connected_edges(g, node.id)
        neighbor1_id == OtherEnd(ce[1], node.id)
        neighbor2_id == OtherEnd(ce[2], node.id)
    IN  IF Len(ce) # 2 THEN TRUE
        ELSE IF HasNode(g, neighbor1_id) /\ HasNode(g, neighbor2_id)
        THEN point_to_line_distance_exceeds(node.x, node.y,
                 NodeOf(g, neighbor1_id).x, NodeOf(g, neighbor1_id).y,
                 NodeOf(g, neighbor2_id).x, NodeOf(g, neighbor2_id).y,
                 max_distance_from_line)
        ELSE FALSE

important_nodes(g) == {g.nodes[i].id : i \in {k \in DOMAIN g.nodes : IsImportant(g, g.nodes[k])}}

\* simplify_paths, step 2
nodes_to_remove(g) ==
    SelectSeq(g.nodes, LAMBDA node :
        node.id \notin important_nodes(g) /\ Len(connected_edges(g, node.id)) = 2)

\* a simplify_paths that removes the node and does not join its neighbours
join_neighbors_Never(g, neighbor1_id, neighbor2_id) == g

\* simplify_paths, step 3, after remove_node: "if neighbor1_id in
\* self.graph.nodes and neighbor2_id in self.graph.nodes: if not
\* self.edge_exists(...): self.graph.add_edge(neighbor1_id, neighbor2_id)"
join_neighbors(g, neighbor1_id, neighbor2_id) ==
    IF /\ HasNode(g, neighbor1_id) /\ HasNode(g, neighbor2_id)
       /\ ~edge_exists(g, neighbor1_id, neighbor2_id)
    THEN add_edge(g, neighbor1_id, neighbor2_id, None).graph
    ELSE g

\* simplify_paths, step 3: the loop over nodes_to_remove.  log keeps, for
\* every node removed, the node and its two neighbours as they were when it
\* was removed (<<>> for a neighbour that is no node of the graph).
RECURSIVE simplify_loop(_, _, _, _)
simplify_loop(g, todo, removed_count, log) ==
    IF todo = <<>>
    THEN [graph |-> g, removed_count |-> removed_count, log |-> log]
    ELSE LET node_id == todo[1].id
             ce == connected_edges(g, node_id)
             neighbor1_id == OtherEnd(ce[1], node_id)
             neighbor2_id == OtherEnd(ce[2], node_id)
             g1 == remove_node(g, node_id)
             g2 == join_neighbors(g1, neighbor1_id, neighbor2_id)
             entry == [node |-> NodeOf(g, node_id),
                       neighbor1 |-> IF HasNode(g, neighbor1_id)
                                     THEN NodeOf(g, neighbor1_id) ELSE <<>>,
                       neighbor2 |-> IF HasNode(g, neighbor2_id)
                                     THEN NodeOf(g, neighbor2_id) ELSE <<>>]
         IN  IF Len(ce) = 2
             THEN simplify_loop(g2, Tail(todo), removed_count + 1, Append(log, entry))
             ELSE simplify_loop(g, Tail(todo), removed_count, log)

\* GraphEditorApp.simplify_paths
simplify_paths(g) == simplify_loop(g, nodes_to_remove(g), 0, <<>>)

(***************************************************************************)
(* Path tracing                                                            *)
(***************************************************************************)
\* find_nearby_existing_node: ids collected into path_node_ids
path_node_ids(g, last) ==
    IF last = None THEN {}
    ELSE UNION {{g.edges[i].node1_id, g.edges[i].node2_id} :
                 i \in {k \in DOMAIN g.edges :
                          /\ HasNode(g, g.edges[k].node1_id)
                          /\ HasNode(g, g.edges[k].node2_id)
                          /\ \/ startswith(NodeOf(g, g.edges[k].node1_id).label, "P")
                             \/ startswith(NodeOf(g, g.edges[k].node2_id).label, "P")}}

\* GraphEditorApp.find_nearby_existing_node(x, y, radius, exclude_path_nodes=True):
\* the id of the node found, or None
find_nearby_existing_node(g, last, x, y, radius) ==
    LET D(i) == Sq(g.nodes[i].x - x) + Sq(g.nodes[i].y - y)
        cand == {i \in DOMAIN g.nodes :
                    /\ ~startswith(g.nodes[i].label, "P")
                    /\ g.nodes[i].id \notin path_node_ids(g, last)
                    /\ g.nodes[i].id # last
                    /\ D(i) < Sq(Px(radius))}
    IN  IF cand = {} THEN None
        ELSE g.nodes[CHOOSE i \in cand :
                        \A j \in cand : D(i) < D(j) \/ (D(i) = D(j) /\ i <= j)].id

\* find_edge_crossing: the edge at position i is returned for the segment
EdgeCrossed(g, last, i, x1, y1, x2, y2) ==
    LET e == g.edges[i]
        node1 == NodeOf(g, e.node1_id)
        node2 == NodeOf(g, e.node2_id)
        p == get_intersection_point(x1, y1, x2, y2, node1.x, node1.y, node2.x, node2.y)
    IN  /\ HasNode(g, e.node1_id) /\ HasNode(g, e.node2_id)
        /\ distance_to(node1, node2) >= Sq(Px(min_edge_length))
        /\ ~Touches(e, last)
        /\ lines_intersect(x1, y1, x2, y2, node1.x, node1.y, node2.x, node2.y)
        /\ p # <<>>
        /\ Sq(p[1] - node1.x) + Sq(p[2] - node1.y) >= Sq(Px(min_crossing_distance))
        /\ Sq(p[1] - node2.x) + Sq(p[2] - node2.y) >= Sq(Px(min_crossing_distance))

\* GraphEditorApp.find_edge_crossing: [edge, point], edge = None when nothing
\* is returned
find_edge_crossing(g, last, x1, y1, x2, y2) ==
    LET hits == {i \in DOMAIN g.edges : EdgeCrossed(g, last, i, x1, y1, x2, y2)}
        first == CHOOSE i \in hits : \A j \in hits : i <= j
        e == g.edges[first]
    IN  IF hits = {} THEN [edge |-> None, point |-> <<>>]
        ELSE [edge |-> first,
              point |-> get_intersection_point(x1, y1, x2, y2,
                           NodeOf(g, e.node1_id).x, NodeOf(g, e.node1_id).y,
                           NodeOf(g, e.node2_id).x, NodeOf(g, e.node2_id).y)]

XCount(g) == Cardinality({i \in DOMAIN g.nodes : startswith(g.nodes[i].label, "X")})

\* the crossing branch without "self.graph.remove_edge(edge.node1_id, edge.node2_id)"
split_crossing_KeepsEdge(g, last, edge_index, point) ==
    LET e == g.edges[edge_index]
        crossing_id == g.next_node_id
        g1 == add_node(g, point[1], point[2], <<"X", XCount(g) + 1>>)
        g2 == IF HasNode(g1, e.node1_id) /\ HasNode(g1, e.node2_id)
              THEN add_edge(add_edge(g1, e.node1_id, crossing_id, None).graph,
                            crossing_id, e.node2_id, None).graph
              ELSE g1
    IN  [graph |-> add_edge(g2, last, crossing_id, None).graph,
         last_path_node |-> crossing_id, branch |-> "crossing"]

\* canvas_drag, crossing branch: the node is inserted and the edge split
split_crossing(g, last, edge_index, point) ==
    LET e == g.edges[edge_index]
        crossing_id == g.next_node_id
        g1 == add_node(g, point[1], point[2], <<"X", XCount(g) + 1>>)
        g2 == IF HasNode(g1, e.node1_id) /\ HasNode(g1, e.node2_id)
              THEN add_edge(add_edge(remove_edge(g1, e.node1_id, e.node2_id),
                                     e.node1_id, crossing_id, None).graph,
                            crossing_id, e.node2_id, None).graph
              ELSE g1
    IN  [graph |-> add_edge(g2, last, crossing_id, None).graph,
         last_path_node |-> crossing_id, branch |-> "crossing"]

\* GraphEditorApp.canvas_drag in mode simulate_path while is_simulating
canvas_drag(g, last, x, y) ==
    LET nearby == find_nearby_existing_node(g, last, x, y, nearby_radius)
        trace_label == <<"P", Len(g.nodes)>>
        last_node == NodeOf(g, last)
        crossing_info == find_edge_crossing(g, last, last_node.x, last_node.y, x, y)
    IN  IF last = None
        THEN IF nearby # None
             THEN [graph |-> g, last_path_node |-> nearby, branch |-> "start_nearby"]
             ELSE [graph |-> add_node(g, x, y, trace_label),
                   last_path_node |-> g.next_node_id, branch |-> "start_new"]
        ELSE IF Sq(x - last_node.x) + Sq(y - last_node.y) < Sq(Px(path_threshold))
        THEN [graph |-> g, last_path_node |-> last, branch |-> "short"]
        ELSE IF nearby # None
        THEN [graph |-> IF edge_exists(g, last, nearby) THEN g
                        ELSE add_edge(g, last, nearby, None).graph,
              last_path_node |-> nearby, branch |-> "nearby"]
        ELSE IF crossing_info.edge # None
        THEN split_crossing(g, last, crossing_info.edge, crossing_info.point)
        ELSE [graph |-> add_edge(add_node(g, x, y, trace_label),
                                 last, g.next_node_id, None).graph,
              last_path_node |-> g.next_node_id, branch |-> "new"]

(***************************************************************************)
(* The Building Model: self.floors and the cursor self.current_floor.      *)
(* self.graph is the property floors[current_floor]["graph"].              *)
(***************************************************************************)
\* GraphEditorApp.add_floor: the entry of a new floor
NewFloor(floor_number) ==
    [num |-> floor_number, graph |-> NewGraph, rooms |-> <<>>, elevators |-> <<>>,
     room_counter |-> 1, elevator_counter |-> 1]

FloorNums(fl) == {fl[i].num : i \in DOMAIN fl}
HasFloor(fl, floor_num) == floor_num \in FloorNums(fl)
FloorOf(fl, floor_num) == fl[CHOOSE i \in DOMAIN fl : fl[i].num = floor_num]

\* self.floors[floor_num] = entry: a new key goes to the end of the dict, a
\* key of the dict keeps its place
FloorSet(fl, entry) ==
    IF HasFloor(fl, entry.num)
    THEN [i \in DOMAIN fl |-> IF fl[i].num = entry.num THEN entry ELSE fl[i]]
    ELSE Append(fl, entry)

\* del self.floors[floor_num]
FloorDel(fl, floor_num) == SelectSeq(fl, LAMBDA f : f.num # floor_num)

\* a handler that works on self.graph: the graph it leaves is the graph of
\* the current floor, and nothing else of the building changes
KeepBuilding ==
    /\ HasFloor(floors, current_floor)
    /\ floors' = [i \in DOMAIN floors |->
                     IF floors[i].num = current_floor
                     THEN [floors[i] EXCEPT !.graph = graph'] ELSE floors[i]]
    /\ UNCHANGED <<current_floor, nav_start_point, nav_end_point>>

\* __init__: one floor, number 0, on a given graph
OneFloor(g) == <<[NewFloor(0) EXCEPT !.graph = g]>>

(***************************************************************************)
(* The editor working on one Level Graph: every handler is one action.     *)
(***************************************************************************)
Ids == 1..graph.next_node_id                        \* ids handed to the operations: every id
                                                    \* assigned so far and one never assigned
NodePos == {<<0, 0>>, <<100, 0>>}         \* clicks that add nodes, pixels
TracePos == {<<50, -50>>, <<50, 50>>}               \* pointer positions of a trace
Radii == {10}                                       \* radii of autoMergeNearby
Weights == {None}                                   \* weight argument of addEdge

\* what a handler reports besides its result: the numbers of nodes and edges
\* it found, and for the loops how far they ran and what they removed
NoInfo == [before_nodes |-> 0, before_edges |-> 0, merge_radius |-> 0, scans |-> 0,
           exhausted |-> FALSE, log |-> <<>>]
Before(g) == [NoInfo EXCEPT !.before_nodes = Len(g.nodes), !.before_edges = Len(g.edges)]
Op(name, ret, raised, info) ==
    [name |-> name, ret |-> ret, raised |-> raised, info |-> info]

Init ==
    /\ graph = NewGraph
    /\ last_path_node = None
    /\ is_simulating = FALSE
    /\ op = Op("init", None, FALSE, NoInfo)
    /\ steps = 0
    /\ floors = OneFloor(graph)
    /\ current_floor = 0
    /\ nav_start_point = <<>>
    /\ nav_end_point = <<>>

\* one more handler has run
Tick == steps < MaxSteps /\ steps' = steps + 1

\* canvas_click, mode add_node
AddNode(pos) ==
    /\ Tick
    /\ ~is_simulating
    /\ graph' = add_node(graph, Px(pos[1]), Px(pos[2]), EmptyLabel)
    /\ KeepBuilding
    /\ op' = Op("add_node", graph.next_node_id, FALSE, NoInfo)
    /\ UNCHANGED <<last_path_node, is_simulating>>

\* Graph.add_edge(node1_id, node2_id, weight)
AddEdge(node1_id, node2_id, weight) ==
    LET r == add_edge(graph, node1_id, node2_id, weight)
    IN  /\ Tick
        /\ ~is_simulating
        /\ graph' = r.graph
        /\ KeepBuilding
        /\ op' = Op("add_edge", r.ret, r.raised, NoInfo)
        /\ UNCHANGED <<last_path_node, is_simulating>>

\* canvas_click, mode delete, on a node; delete_node
RemoveNode(node_id) ==
    /\ Tick
    /\ ~is_simulating
    /\ graph' = remove_node(graph, node_id)
    /\ KeepBuilding
    /\ op' = Op("remove_node", None, FALSE, Before(graph))
    /\ UNCHANGED <<last_path_node, is_simulating>>

\* canvas_click, mode delete, on an edge
RemoveEdge(node1_id, node2_id) ==
    /\ Tick
    /\ ~is_simulating
    /\ graph' = remove_edge(graph, node1_id, node2_id)
    /\ KeepBuilding
    /\ op' = Op("remove_edge", None, FALSE, NoInfo)
    /\ UNCHANGED <<last_path_node, is_simulating>>

\* merge_two_nodes(keep_node, remove_node)
MergeNodes(keep_id, remove_id) ==
    LET r == merge_two_nodes(graph, keep_id, remove_id)
    IN  /\ Tick
        /\ ~is_simulating
        /\ graph' = r.graph
        /\ KeepBuilding
        /\ op' = Op("merge_two_nodes", None, r.raised, Before(graph))
        /\ UNCHANGED <<last_path_node, is_simulating>>

\* auto_merge_nearby_nodes(merge_radius), as optimize_crossings calls it
AutoMergeNearby(merge_radius) ==
    LET r == auto_merge_nearby_nodes(graph, merge_radius)
    IN  /\ Tick
        /\ ~is_simulating
        /\ graph' = r.graph
        /\ KeepBuilding
        /\ op' = Op("auto_merge_nearby_nodes", IF r.raised THEN None ELSE r.merged_count,
                    r.raised,
                    [Before(graph) EXCEPT !.merge_radius = merge_radius,
                                          !.scans = r.scans, !.exhausted = r.exhausted])
        /\ UNCHANGED <<last_path_node, is_simulating>>

\* simplify_paths
SimplifyPaths ==
    LET r == simplify_paths(graph)
    IN  /\ Tick
        /\ ~is_simulating
        /\ graph' = r.graph
        /\ KeepBuilding
        /\ op' = Op("simplify_paths", r.removed_count, FALSE,
                    [Before(graph) EXCEPT !.log = r.log])
        /\ UNCHANGED <<last_path_node, is_simulating>>

\* canvas_click, mode simulate_path
TraceClick ==
    /\ Tick
    /\ ~is_simulating
    /\ is_simulating' = TRUE
    /\ last_path_node' = None
    /\ op' = Op("canvas_click", None, FALSE, NoInfo)
    /\ UNCHANGED graph
    /\ KeepBuilding

\* canvas_drag, mode simulate_path
TraceDrag(pos) ==
    LET r == canvas_drag(graph, last_path_node, Px(pos[1]), Px(pos[2]))
    IN  /\ Tick
        /\ is_simulating
        /\ r.branch # "short"
        /\ graph' = r.graph
        /\ KeepBuilding
        /\ last_path_node' = r.last_path_node
        /\ op' = Op("canvas_drag", r.last_path_node, FALSE, NoInfo)
        /\ UNCHANGED is_simulating

\* canvas_release, mode simulate_path
TraceRelease(pos) ==
    LET nearby_end_node == find_nearby_existing_node(graph, last_path_node,
                               Px(pos[1]), Px(pos[2]), nearby_radius)
        g1 == IF /\ last_path_node # None
                 /\ nearby_end_node # None
                 /\ nearby_end_node # last_path_node
                 /\ ~edge_exists(graph, last_path_node, nearby_end_node)
              THEN add_edge(graph, last_path_node, nearby_end_node, None).graph
              ELSE graph
        r == auto_merge_nearby_nodes(g1, release_merge_radius)
    IN  /\ Tick
        /\ is_simulating
        /\ graph' = r.graph
        /\ KeepBuilding
        /\ is_simulating' = FALSE
        /\ last_path_node' = None
        /\ op' = Op("canvas_release", IF r.raised THEN None ELSE r.merged_count,
                    r.raised,
                    [Before(g1) EXCEPT !.merge_radius = release_merge_radius,
                                       !.scans = r.scans, !.exhausted = r.exhausted])

Next ==
    \/ \E pos \in NodePos : AddNode(pos)
    \/ \E a \in Ids, b \in Ids, w \in Weights : AddEdge(a, b, w)
    \/ \E a \in Ids : RemoveNode(a)
    \/ \E a \in Ids, b \in Ids : RemoveEdge(a, b)
    \/ \E a \in Ids, b \in Ids : MergeNodes(a, b)
    \/ \E r \in Radii : AutoMergeNearby(r)
    \/ SimplifyPaths
    \/ TraceClick
    \/ \E pos \in TracePos : TraceDrag(pos)
    \/ \E pos \in TracePos : TraceRelease(pos)

Spec == Init /\ [][Next]_vars

(***************************************************************************)
(* class Graph alone: the four operations of the Level Graph, with edge    *)
(* weights given or left to default.                                       *)
(***************************************************************************)
GraphPos == {<<30, 40>>}
GraphWeights == {None, Sq(Px(7))}

NextGraph ==
    \/ \E pos \in GraphPos : AddNode(pos)
    \/ \E a \in Ids, b \in Ids, w \in GraphWeights : AddEdge(a, b, w)
    \/ \E a \in Ids : RemoveNode(a)
    \/ \E a \in Ids, b \in Ids : RemoveEdge(a, b)

SpecGraph == Init /\ [][NextGraph]_vars

EdgesBetween(g, a, b) == {i \in DOMAIN g.edges : SameEdge(g.edges[i], a, b)}

\* C1: in every state reached from the empty graph by the operations of the
\* editor, both endpoint ids of every edge are ids of nodes of the graph
EdgeEndpointsExist ==
    \A i \in DOMAIN graph.edges :
        HasNode(graph, graph.edges[i].node1_id) /\ HasNode(graph, graph.edges[i].node2_id)

\* C2: in every state reached from the empty graph by the operations of the
\* editor, the edge sequence holds at most one edge for each unordered pair
OneEdgePerPair ==
    \A i \in DOMAIN graph.edges : \A j \in DOMAIN graph.edges :
        SameEdge(graph.edges[i], graph.edges[j].node1_id, graph.edges[j].node2_id) => i = j

\* C2 witness: a merge found two edges and left one, an edge that was there
\* before the merge (its weight is not the distance of its moved endpoints),
\* so the other was dropped as a self-loop or as a duplicate
MergeDroppedEdge ==
    /\ op.name = "merge_two_nodes"
    /\ op.info.before_edges = 2
    /\ Len(graph.edges) = 1
    /\ Len(graph.nodes) = 2
    /\ HasNode(graph, graph.edges[1].node1_id)
    /\ HasNode(graph, graph.edges[1].node2_id)
    /\ graph.edges[1].node1_id # graph.edges[1].node2_id
    /\ graph.edges[1].weight # distance_to(NodeOf(graph, graph.edges[1].node1_id),
                                           NodeOf(graph, graph.edges[1].node2_id))

\* C3: addEdge on the pair of the edge that the preceding addEdge returned, in
\* either order and with any weight, changes nothing in the graph, returns
\* that same edge, and the pair has exactly one edge
AddEdgeIdempotent ==
    [][\A a \in Ids, b \in Ids, w \in GraphWeights :
          (/\ op.name = "add_edge"
           /\ op'.name = "add_edge"
           /\ ~op.raised
           /\ SameEdge(graph.edges[op.ret], a, b)
           /\ AddEdge(a, b, w))
          => (/\ graph' = graph
              /\ ~op'.raised
              /\ op'.ret = op.ret
              /\ Cardinality(EdgesBetween(graph', a, b)) = 1)]_vars

\* C3 witness: addEdge returned an edge that is not the last of the sequence,
\* while the graph holds edges of either kind of weight
AddEdgeReturnedExisting ==
    /\ op.name = "add_edge"
    /\ ~op.raised
    /\ op.ret < Len(graph.edges)
    /\ \E i \in DOMAIN graph.edges : graph.edges[i].weight = Sq(Px(7))

\* C4: addEdge with an id that is no node of the graph raises and leaves the
\* graph as it was
AddEdgeInvalidReference ==
    [][\A a \in Ids, b \in Ids, w \in GraphWeights :
          (/\ op'.name = "add_edge"
           /\ ~HasNode(graph, a) \/ ~HasNode(graph, b)
           /\ AddEdge(a, b, w))
          => (op'.raised /\ op'.ret = None /\ graph' = graph)]_vars

\* C4 witness: addEdge raised on a graph that has nodes and edges
AddEdgeRaised ==
    /\ op.name = "add_edge"
    /\ op.raised
    /\ Len(graph.nodes) >= 2
    /\ Len(graph.edges) >= 1

\* C5: removeNode of a node removes it and exactly the edges that touch it,
\* keeps every other node and edge in order, and leaves every edge with both
\* endpoints in the graph; removeNode of an absent id changes nothing
RemoveNodeExact ==
    [][\A id \in Ids :
          (op'.name = "remove_node" /\ RemoveNode(id)) =>
              IF HasNode(graph, id)
              THEN /\ ~HasNode(graph', id)
                   /\ graph'.nodes = SelectSeq(graph.nodes, LAMBDA n : n.id # id)
                   /\ graph'.edges = SelectSeq(graph.edges, LAMBDA e : ~Touches(e, id))
                   /\ graph'.next_node_id = graph.next_node_id
                   /\ \A i \in DOMAIN graph'.edges :
                         /\ HasNode(graph', graph'.edges[i].node1_id)
                         /\ HasNode(graph', graph'.edges[i].node2_id)
              ELSE graph' = graph]_vars

\* the ids reachable from the ids of S along the edges of g
RECURSIVE ReachableFrom(_, _)
ReachableFrom(g, S) ==
    LET T == S \cup {g.edges[i].node2_id : i \in {k \in DOMAIN g.edges : g.edges[k].node1_id \in S}}
                \cup {g.edges[i].node1_id : i \in {k \in DOMAIN g.edges : g.edges[k].node2_id \in S}}
    IN  IF T = S THEN S ELSE ReachableFrom(g, T)

Neighbours(g, id) == {OtherEnd(g.edges[i], id) : i \in {k \in DOMAIN g.edges : Touches(g.edges[k], id)}}

\* C7: mergeNodes(keep, remove) on two distinct nodes of the graph leaves no
\* node remove and no edge with remove as an endpoint, makes every former
\* neighbour of remove other than keep a neighbour of keep, and keeps every
\* two nodes other than remove connected that were connected before
MergeNodesPreserves ==
    [][\A keep_id \in Ids, remove_id \in Ids :
          (/\ op'.name = "merge_two_nodes"
           /\ keep_id # remove_id
           /\ HasNode(graph, keep_id)
           /\ HasNode(graph, remove_id)
           /\ MergeNodes(keep_id, remove_id))
          => (/\ ~HasNode(graph', remove_id)
              /\ \A i \in DOMAIN graph'.edges : ~Touches(graph'.edges[i], remove_id)
              /\ \A n \in Neighbours(graph, remove_id) \ {keep_id, remove_id} :
                    n \in Neighbours(graph', keep_id)
              /\ \A a \in NodeIds(graph) \ {remove_id} :
                    \A b \in (ReachableFrom(graph, {a}) \cap NodeIds(graph)) \ {remove_id} :
                        b \in ReachableFrom(graph', {a}))]_vars

(***************************************************************************)
(* autoMergeNearby on graphs built by addNode and addEdge.                 *)
(***************************************************************************)
MergePos == {<<0, 0>>, <<5, 0>>, <<50, 0>>}
MergeRadii == {10, 48}

NextMerge ==
    \/ \E pos \in MergePos : AddNode(pos)
    \/ \E a \in Ids, b \in Ids : AddEdge(a, b, None)
    \/ \E r \in MergeRadii : AutoMergeNearby(r)

SpecMerge == Init /\ [][NextMerge]_vars

\* C8: when autoMergeNearby(radius) has returned, no two nodes of the graph
\* are strictly closer to each other than radius
NoPairWithinRadius ==
    (op.name = "auto_merge_nearby_nodes" /\ ~op.raised)
        => ClosePairs(graph, op.info.merge_radius) = {}

\* C8 witness: autoMergeNearby(48) on nodes (50,0), (0,0), (5,0) returned
\* after two merges, the second of a pair that the first had brought together
AutoMergeCascaded ==
    /\ op.name = "auto_merge_nearby_nodes"
    /\ ~op.raised
    /\ op.info.merge_radius = 48
    /\ op.info.before_nodes = 3
    /\ op.ret = 2
    /\ op.info.scans = 3
    /\ Len(graph.nodes) = 1
    /\ graph.nodes[1].x = Px(55) \div 4

\* C9: autoMergeNearby ends on every graph, after at most as many scans as
\* the graph had nodes plus one, and the count it returns is the number of
\* nodes it removed
AutoMergeTerminates ==
    op.name = "auto_merge_nearby_nodes"
        => /\ ~op.info.exhausted
           /\ op.info.scans <= op.info.before_nodes + 1
           /\ ~op.raised => op.ret = op.info.before_nodes - Len(graph.nodes)

\* C9 witness: autoMergeNearby(10) on nodes (0,0), (5,0), (50,0) returned 1
\* and left two nodes
AutoMergeScenario ==
    /\ op.name = "auto_merge_nearby_nodes"
    /\ op.info.merge_radius = 10
    /\ op.info.before_nodes = 3
    /\ op.info.scans = 2
    /\ op.ret = 1
    /\ Len(graph.nodes) = 2
    /\ graph.nodes[1].id = 1 /\ graph.nodes[1].x = Px(5) \div 2 /\ graph.nodes[1].y = 0
    /\ graph.nodes[2].id = 3 /\ graph.nodes[2].x = Px(50) /\ graph.nodes[2].y = 0

(***************************************************************************)
(* simplifyPaths on paths of nodes: the graphs that addNode and addEdge    *)
(* (or a trace) build node after node, left open, closed into a ring, or   *)
(* with the last node joined to the second: a ring with a dead end.        *)
(***************************************************************************)
MaxChain == 4       \* nodes of the path
ChainPos == {<<0, 0>>, <<40, 0>>, <<80, 14>>, <<110, 50>>}

\* add_node for every position of ps, add_edge from each node to the one before
RECURSIVE chain(_)
chain(ps) ==
    IF ps = <<>> THEN NewGraph
    ELSE LET n == Len(ps)
             g == chain(SubSeq(ps, 1, n - 1))
             g1 == add_node(g, Px(ps[n][1]), Px(ps[n][2]), EmptyLabel)
         IN  IF n = 1 THEN g1 ELSE add_edge(g1, n - 1, n, None).graph

InitSimplify ==
    /\ \E n \in 3..MaxChain : \E ps \in [1..n -> ChainPos] : \E joined \in 0..2 :
          graph = IF joined = 0 THEN chain(ps) ELSE add_edge(chain(ps), n, joined, None).graph
    /\ last_path_node = None
    /\ is_simulating = FALSE
    /\ op = Op("init", None, FALSE, NoInfo)
    /\ steps = 0
    /\ floors = OneFloor(graph)
    /\ current_floor = 0
    /\ nav_start_point = <<>>
    /\ nav_end_point = <<>>

NextSimplify ==
    \/ SimplifyPaths
    \/ \E a \in Ids : RemoveNode(a)

SpecSimplify == InitSimplify /\ [][NextSimplify]_vars

\* a node removed by simplify_paths, entry of the log: it lay farther than
\* max_distance_from_line from the segment joining the two neighbours it had
\* when it was removed
RemovedBeyond(entry) ==
    /\ entry.neighbor1 # <<>>
    /\ entry.neighbor2 # <<>>
    /\ point_to_line_distance_exceeds(entry.node.x, entry.node.y,
           entry.neighbor1.x, entry.neighbor1.y,
           entry.neighbor2.x, entry.neighbor2.y, max_distance_from_line)

\* C10: every node that simplifyPaths removed lay, when it was removed, at
\* most maxDeviation (15) from the segment joining the two neighbours it then
\* had
SimplifyWithinDeviation ==
    op.name = "simplify_paths"
        => \A i \in DOMAIN op.info.log : ~RemovedBeyond(op.info.log[i])

\* C10 on the path (0,0) - (40,0) - (80,14) - (110,50): the pass removed node 2
\* and then node 3, whose neighbours were by then nodes 4 and 1, and node 3
\* lay farther than 15 from the segment between them
ChainRemovedBeyond ==
    /\ op.name = "simplify_paths"
    /\ op.info.before_nodes = 4
    /\ op.info.before_edges = 3
    /\ op.ret = 2
    /\ Len(op.info.log) = 2
    /\ op.info.log[1].node = Node(Px(40), 0, 2, EmptyLabel)
    /\ ~RemovedBeyond(op.info.log[1])
    /\ op.info.log[2].node = Node(Px(80), Px(14), 3, EmptyLabel)
    /\ op.info.log[2].neighbor1 = Node(Px(110), Px(50), 4, EmptyLabel)
    /\ op.info.log[2].neighbor2 = Node(0, 0, 1, EmptyLabel)
    /\ RemovedBeyond(op.info.log[2])
    /\ NodeIds(graph) = {1, 4}
    /\ Len(graph.edges) = 1
    /\ SameEdge(graph.edges[1], 1, 4)

(***************************************************************************)
(* The Level Graph of a floor over documents: clear_graph, new_graph and   *)
(* load_graph next to the operations that assign and retire ids.           *)
(***************************************************************************)
\* Node.to_dict, Edge.to_dict, Graph.to_dict.  Absent stands for the key
\* next_node_id that a document does not have.
Absent == -2
Node_to_dict(node) == [x |-> node.x, y |-> node.y, id |-> node.id, label |-> node.label]
Edge_to_dict(edge) == [node1_id |-> edge.node1_id, node2_id |-> edge.node2_id,
                       weight |-> edge.weight]
to_dict(g) ==
    [nodes |-> [i \in DOMAIN g.nodes |-> Node_to_dict(g.nodes[i])],
     edges |-> [i \in DOMAIN g.edges |-> Edge_to_dict(g.edges[i])],
     next_node_id |-> g.next_node_id]

\* Node.from_dict, Edge.from_dict: a document without "label" reads as one
\* with the empty label, one without "weight" as one with the weight None
Node_from_dict(data) == Node(data.x, data.y, data.id, data.label)
Edge_from_dict(data) == Edge(data.node1_id, data.node2_id, data.weight)

\* the loop "graph.nodes[node.id] = node" of Graph.from_dict
RECURSIVE from_dict_nodes(_, _)
from_dict_nodes(ns, node_data) ==
    IF node_data = <<>> THEN ns
    ELSE from_dict_nodes(DictSet(ns, Node_from_dict(node_data[1])), Tail(node_data))

\* Graph.from_dict(data)
from_dict(data) ==
    [nodes |-> from_dict_nodes(<<>>, data.nodes),
     edges |-> [i \in DOMAIN data.edges |-> Edge_from_dict(data.edges[i])],
     next_node_id |-> IF data.next_node_id = Absent THEN 1 ELSE data.next_node_id]

\* a document of the oldest shape: the graph without the key next_node_id
WithoutCounter(data) == [data EXCEPT !.next_node_id = Absent]

MaxDocNodes == 2    \* nodes of a document
DocPos == {<<0, 0>>, <<30, 40>>}

\* the documents offered to load_graph: what save writes for a path of nodes
\* at DocPos, and the same documents in the oldest shape
Documents ==
    LET saved == {to_dict(chain(ps)) :
                     ps \in UNION {[1..n -> DocPos] : n \in 1..MaxDocNodes}}
    IN  saved \cup {WithoutCounter(d) : d \in saved}

\* clear_graph, confirmed
ClearGraph ==
    /\ Tick
    /\ ~is_simulating
    /\ graph' = [graph EXCEPT !.nodes = <<>>, !.edges = <<>>]
    /\ KeepBuilding
    /\ op' = Op("clear_graph", None, FALSE, Before(graph))
    /\ UNCHANGED <<last_path_node, is_simulating>>

\* new_graph, confirmed and named
NewGraphFile ==
    /\ Tick
    /\ ~is_simulating
    /\ graph' = NewGraph
    /\ KeepBuilding
    /\ op' = Op("new_graph", None, FALSE, Before(graph))
    /\ UNCHANGED <<last_path_node, is_simulating>>

\* load_graph of a document holding one graph
LoadGraph(data) ==
    /\ Tick
    /\ ~is_simulating
    /\ graph' = from_dict(data)
    /\ floors' = OneFloor(graph')
    /\ current_floor' = 0
    /\ UNCHANGED <<nav_start_point, nav_end_point>>
    /\ op' = Op("load_graph", None, FALSE, Before(graph))
    /\ UNCHANGED <<last_path_node, is_simulating>>

NextDoc ==
    \/ \E pos \in DocPos : AddNode(pos)
    \/ \E a \in Ids : RemoveNode(a)
    \/ \E a \in Ids, b \in Ids : MergeNodes(a, b)
    \/ ClearGraph
    \/ NewGraphFile
    \/ \E data \in Documents : LoadGraph(data)

SpecDoc == Init /\ [][NextDoc]_vars

\* C6: addNode returns an id that is no node of the graph and is greater than
\* the id of every node of the graph, and the id counter of a graph never
\* goes back, so the id is greater than every id assigned before in that
\* graph (new_graph and load_graph put another graph in its place)
NodeIdsMonotonic ==
    [][/\ op'.name = "add_node"
          => /\ ~HasNode(graph, op'.ret)
             /\ \A id \in NodeIds(graph) : op'.ret > id
             /\ Len(graph'.nodes) = Len(graph.nodes) + 1
       /\ op'.name \notin {"new_graph", "load_graph"}
          => graph'.next_node_id >= graph.next_node_id]_vars

\* C6 on a loaded document of the oldest shape: addNode returned the id of a
\* node of the document and took its place, the counter still not past the
\* ids of the graph
AddNodeReplacedLoaded ==
    /\ op.name = "add_node"
    /\ op.ret = 1
    /\ Len(graph.nodes) = 2
    /\ NodeIds(graph) = {1, 2}
    /\ graph.next_node_id = 2

(***************************************************************************)
(* lines_intersect over the points of an integer grid.                     *)
(***************************************************************************)
GridMax == 2        \* the grid is 0..GridMax x 0..GridMax, pixels
Grid == (0..GridMax) \X (0..GridMax)

\* twice the signed area of the triangle a, b, c
Orient(a, b, c) == (b[1] - a[1]) * (c[2] - a[2]) - (b[2] - a[2]) * (c[1] - a[1])

\* the segments p1-p2 and p3-p4 cross at one point interior to both: the ends
\* of each lie strictly on opposite sides of the other
StrictCrossing(p1, p2, p3, p4) ==
    /\ Orient(p3, p4, p1) * Orient(p3, p4, p2) < 0
    /\ Orient(p1, p2, p3) * Orient(p1, p2, p4) < 0

\* c lies on the segment a-b
OnSegment(a, b, c) ==
    /\ Orient(a, b, c) = 0
    /\ (c[1] - a[1]) * (c[1] - b[1]) <= 0
    /\ (c[2] - a[2]) * (c[2] - b[2]) <= 0

\* the four points given to lines_intersect
InitSegments ==
    /\ graph = NewGraph
    /\ last_path_node = None
    /\ is_simulating = FALSE
    /\ \E p1 \in Grid, p2 \in Grid, p3 \in Grid, p4 \in Grid :
           op = Op("points", None, FALSE, [NoInfo EXCEPT !.log = <<p1, p2, p3, p4>>])
    /\ steps = 0
    /\ floors = OneFloor(graph)
    /\ current_floor = 0
    /\ nav_start_point = <<>>
    /\ nav_end_point = <<>>

\* lines_intersect(x1, y1, x2, y2, x3, y3, x4, y4) on the four points
LinesIntersect ==
    /\ Tick
    /\ op.name = "points"
    /\ LET p == op.info.log
       IN  op' = Op("lines_intersect",
                    lines_intersect(Px(p[1][1]), Px(p[1][2]), Px(p[2][1]), Px(p[2][2]),
                                    Px(p[3][1]), Px(p[3][2]), Px(p[4][1]), Px(p[4][2])),
                    FALSE, op.info)
    /\ UNCHANGED <<graph, last_path_node, is_simulating, floors, current_floor,
                   nav_start_point, nav_end_point>>

NextSegments == LinesIntersect

SpecSegments == InitSegments /\ [][NextSegments]_vars

\* C19: segmentsIntersect is true exactly when the two segments cross at a
\* single point interior to both, and false when they are collinear or only
\* touch
SegmentsIntersectStrict ==
    op.name = "lines_intersect"
        => LET p == op.info.log
           IN  op.ret = StrictCrossing(p[1], p[2], p[3], p[4])

\* C19 on the segments (0,0)-(2,0) and (1,0)-(1,1): the end (1,0) of the
\* second lies on the first, the segments do not cross, and lines_intersect
\* returned true
TouchReportedCrossing ==
    /\ op.name = "lines_intersect"
    /\ op.info.log = <<<<0, 0>>, <<2, 0>>, <<1, 0>>, <<1, 1>>>>
    /\ OnSegment(op.info.log[1], op.info.log[2], op.info.log[3])
    /\ ~StrictCrossing(op.info.log[1], op.info.log[2], op.info.log[3], op.info.log[4])
    /\ op.ret = TRUE

(***************************************************************************)
(* The crossing split of a trace.                                          *)
(***************************************************************************)
\* C20: when canvas_drag takes the crossing branch, with find_edge_crossing
\* returning the edge a-b and the point p for the segment from the last trace
\* node L, then after the step a node x that was no node before lies at p,
\* the edge a-b is gone, the edges a-x, x-b and L-x are in the graph and x is
\* the last trace node
CrossingSplit ==
    [][\A pos \in TracePos :
          (/\ TraceDrag(pos)
           /\ canvas_drag(graph, last_path_node, Px(pos[1]), Px(pos[2])).branch = "crossing")
          => LET L == last_path_node
                 c == find_edge_crossing(graph, L, NodeOf(graph, L).x, NodeOf(graph, L).y,
                                         Px(pos[1]), Px(pos[2]))
                 a == graph.edges[c.edge].node1_id
                 b == graph.edges[c.edge].node2_id
                 x == last_path_node'
             IN  /\ c.edge # None
                 /\ ~HasNode(graph, x)
                 /\ HasNode(graph', x)
                 /\ NodeOf(graph', x).x = c.point[1]
                 /\ NodeOf(graph', x).y = c.point[2]
                 /\ Len(graph'.nodes) = Len(graph.nodes) + 1
                 /\ ~edge_exists(graph', a, b)
                 /\ edge_exists(graph', a, x)
                 /\ edge_exists(graph', x, b)
                 /\ edge_exists(graph', L, x)
                 /\ Len(graph'.edges) = Len(graph.edges) + 2]_vars

\* C20 on the edge (0,0)-(100,0) crossed by the trace from (50,-50) to
\* (50,50): node 4 was inserted at (50,0), the edge 1-2 gave way to 1-4 and
\* 4-2, the trace node 3 is joined to 4 and 4 is the last trace node
CrossingSplitExample ==
    /\ op.name = "canvas_drag"
    /\ is_simulating
    /\ last_path_node = 4
    /\ NodeIds(graph) = {1, 2, 3, 4}
    /\ NodeOf(graph, 1).x = 0 /\ NodeOf(graph, 1).y = 0
    /\ NodeOf(graph, 2).x = Px(100) /\ NodeOf(graph, 2).y = 0
    /\ NodeOf(graph, 4).x = Px(50) /\ NodeOf(graph, 4).y = 0
    /\ NodeOf(graph, 4).label = <<"X", 1>>
    /\ ~edge_exists(graph, 1, 2)
    /\ edge_exists(graph, 1, 4)
    /\ edge_exists(graph, 4, 2)
    /\ edge_exists(graph, 3, 4)
    /\ Len(graph.edges) = 3

(***************************************************************************)
(* The Building Model over floor operations and documents of version 2.0.  *)
(***************************************************************************)
\* self.graph where the current floor may be no floor: the property raises
\* KeyError there, and the model then holds the empty graph
CurrentGraph(fl, floor_num) ==
    IF HasFloor(fl, floor_num) THEN FloorOf(fl, floor_num).graph ELSE NewGraph

\* sorted(self.floors.keys())[0]
FirstFloor(fl) == CHOOSE n \in FloorNums(fl) : \A k \in FloorNums(fl) : n <= k

\* a room or an elevator of a floor, as canvas_click builds them: ids are
\* f"room_{floor}_{counter}" and f"elevator_{floor}_{counter}", group ids are
\* numbered, the edge is <<>> for None or <<edge>>
Room(floor_num, counter, x, y, connection_x, connection_y, edge) ==
    [id |-> <<"room", floor_num, counter>>, floor |-> floor_num, x |-> x, y |-> y,
     connection_x |-> connection_x, connection_y |-> connection_y,
     type |-> "room", group_id |-> None, edge |-> edge]
Elevator(floor_num, counter, elevator_type, group_id, x, y, connection_x, connection_y, edge) ==
    [id |-> <<"elevator", floor_num, counter>>, floor |-> floor_num, x |-> x, y |-> y,
     connection_x |-> connection_x, connection_y |-> connection_y,
     type |-> elevator_type, group_id |-> group_id, edge |-> edge]

\* str(floor_num) and int(floor_num_str) on the characters of a key of the
\* JSON object "floors"
Digits == <<"0", "1", "2", "3", "4", "5", "6", "7", "8", "9">>
IsDigit(c) == \E d \in DOMAIN Digits : Digits[d] = c
DigitValue(c) == (CHOOSE d \in DOMAIN Digits : Digits[d] = c) - 1

RECURSIVE str_digits(_)
str_digits(n) ==
    IF n < 10 THEN <<Digits[n + 1]>> ELSE Append(str_digits(n \div 10), Digits[(n % 10) + 1])
str(n) == IF n < 0 THEN <<"-">> \o str_digits(-n) ELSE str_digits(n)

RECURSIVE int_digits(_, _)
int_digits(s, acc) ==
    IF s = <<>> THEN acc ELSE int_digits(Tail(s), 10 * acc + DigitValue(s[1]))
\* int(s): ValueError on a key that is no number
int(s) ==
    LET neg == s # <<>> /\ s[1] = "-"
        body == IF neg THEN Tail(s) ELSE s
        ok == body # <<>> /\ \A i \in DOMAIN body : IsDigit(body[i])
    IN  [raised |-> ~ok,
         value |-> IF ~ok THEN None ELSE IF neg THEN -int_digits(body, 0) ELSE int_digits(body, 0)]

\* Edge.from_dict raises KeyError on a dict without node1_id or node2_id, and
\* Graph.from_dict with it
Edge_from_dict_raises(data) == data.node1_id = Absent \/ data.node2_id = Absent
from_dict_raises(data) == \E i \in DOMAIN data.edges : Edge_from_dict_raises(data.edges[i])

\* str(uuid.uuid4()): a token that the program does not determine.  The
\* tokens of one handler come from the seed it drew, the token of call k
\* differs from the token of every other call
UuidSeeds == {1, 2}
uuid4(uuid_seed, k) == uuid_seed * 100 + k

\* the room and elevator loops of load_graph: every entry is copied, an id
\* or a floor it lacks is filled in (the id is <<>> when the key is absent),
\* its edge is decoded, and an elevator without group_id gets a fresh one
load_entries_raises(entries) ==
    \E i \in DOMAIN entries :
        entries[i].edge # <<>> /\ Edge_from_dict_raises(entries[i].edge[1])
load_entries(entries, floor_num, kind, uuid_seed) ==
    [i \in DOMAIN entries |->
        [entries[i] EXCEPT
            !.id = IF @ = <<>> THEN <<kind, floor_num, i>> ELSE @,
            !.floor = IF @ = Absent THEN floor_num ELSE @,
            !.edge = IF @ = <<>> THEN <<>> ELSE <<Edge_from_dict(@[1])>>,
            !.group_id = IF kind = "elevator" /\ @ = Absent
                         THEN uuid4(uuid_seed, 10 * floor_num + i) ELSE @]]

\* the loop over data["floors"].items() of load_graph, on self.floors as it
\* stands: it stops where a floor raises
RECURSIVE load_floors(_, _, _)
load_floors(fl, items, uuid_seed) ==
    IF items = <<>> THEN [floors |-> fl, raised |-> FALSE]
    ELSE LET floor_data == items[1]
             floor_num == int(floor_data.key)
         IN  IF \/ floor_num.raised
                \/ ~floor_data.has_graph
                \/ from_dict_raises(floor_data.graph)
                \/ load_entries_raises(floor_data.rooms)
                \/ load_entries_raises(floor_data.elevators)
             THEN [floors |-> fl, raised |-> TRUE]
             ELSE load_floors(
                      FloorSet(fl, [num |-> floor_num.value,
                                    graph |-> from_dict(floor_data.graph),
                                    rooms |-> load_entries(floor_data.rooms, floor_num.value,
                                                           "room", uuid_seed),
                                    elevators |-> load_entries(floor_data.elevators,
                                                               floor_num.value, "elevator", uuid_seed),
                                    room_counter |->
                                        IF floor_data.room_counter = Absent THEN 1
                                        ELSE floor_data.room_counter,
                                    elevator_counter |->
                                        IF floor_data.elevator_counter = Absent THEN 1
                                        ELSE floor_data.elevator_counter]),
                      Tail(items), uuid_seed)

\* load_graph, the branch of version "2.0", from the Building Model with the
\* current floor cf: self.floors = {} comes first, the except clause leaves
\* what was assigned until the exception
load_graph(data, cf, uuid_seed) ==
    LET r == load_floors(<<>>, data.floors, uuid_seed)
        data_floor == IF data.current_floor = Absent THEN 0 ELSE data.current_floor
    IN  IF ~data.has_floors
        THEN [floors |-> <<>>, current_floor |-> cf, raised |-> TRUE]        \* KeyError
        ELSE IF r.raised
        THEN [floors |-> r.floors, current_floor |-> cf, raised |-> TRUE]
        ELSE IF HasFloor(r.floors, data_floor)
        THEN [floors |-> r.floors, current_floor |-> data_floor, raised |-> FALSE]
        ELSE IF r.floors = <<>>
        THEN [floors |-> <<>>, current_floor |-> data_floor, raised |-> TRUE]  \* IndexError
        ELSE [floors |-> r.floors, current_floor |-> FirstFloor(r.floors), raised |-> FALSE]

\* save_graph: the entry of a floor in the document, and the document
floor_to_dict(f) ==
    [key |-> str(f.num), has_graph |-> TRUE, graph |-> to_dict(f.graph),
     rooms |-> [i \in DOMAIN f.rooms |->
                   [f.rooms[i] EXCEPT !.edge = IF f.rooms[i].edge = <<>> THEN <<>>
                                               ELSE <<Edge_to_dict(f.rooms[i].edge[1])>>]],
     elevators |-> [i \in DOMAIN f.elevators |->
                   [f.elevators[i] EXCEPT !.edge = IF f.elevators[i].edge = <<>> THEN <<>>
                                                   ELSE <<Edge_to_dict(f.elevators[i].edge[1])>>]],
     room_counter |-> f.room_counter, elevator_counter |-> f.elevator_counter]
save_graph(fl, cf) ==
    [version |-> "2.0", current_floor |-> cf, has_floors |-> TRUE,
     floors |-> [i \in DOMAIN fl |-> floor_to_dict(fl[i])]]

\* Graph.merge_with(other, offset_x, offset_y): the node loop, and the edge
\* loop with id_mapping[id] = the id given to the node of other at position i
RECURSIVE merge_with_nodes(_, _, _, _)
merge_with_nodes(g, other_nodes, offset_x, offset_y) ==
    IF other_nodes = <<>> THEN g
    ELSE merge_with_nodes(add_node(g, other_nodes[1].x + offset_x,
                                   other_nodes[1].y + offset_y, other_nodes[1].label),
                          Tail(other_nodes), offset_x, offset_y)

RECURSIVE merge_with_edges(_, _, _, _)
merge_with_edges(g, other_edges, other, first_id) ==
    LET id_mapping(id) ==
            first_id + (CHOOSE i \in DOMAIN other.nodes : other.nodes[i].id = id) - 1
        edge == other_edges[1]
    IN  IF other_edges = <<>> THEN [graph |-> g, raised |-> FALSE]
        ELSE IF ~HasNode(other, edge.node1_id) \/ ~HasNode(other, edge.node2_id)
        THEN [graph |-> g, raised |-> TRUE]                                \* KeyError
        ELSE merge_with_edges(add_edge(g, id_mapping(edge.node1_id),
                                       id_mapping(edge.node2_id), edge.weight).graph,
                              Tail(other_edges), other, first_id)

merge_with(g, other, offset_x, offset_y) ==
    merge_with_edges(merge_with_nodes(g, other.nodes, offset_x, offset_y),
                     other.edges, other, g.next_node_id)

merge_offset_x == 200       \* merge_graphs: offset_x, pixels

\* the documents offered to merge_graphs: a saved graph of two nodes and an
\* edge, and the same with the edge naming a node the document does not have
MergeDocuments ==
    LET saved == to_dict(chain(<<<<0, 0>>, <<30, 40>>>>))
    IN  {saved, [saved EXCEPT !.edges[1].node2_id = 3]}

MaxFloor == 1                       \* floor numbers are 0..MaxFloor
FloorNumbers == 0..MaxFloor

\* the documents offered to load_graph: two written by save_graph, and
\* malformed ones: no current_floor, an empty floor map, no "floors", a floor
\* key that is no number after a good floor, a floor without "graph", a graph
\* with an edge without node ids, a room with such an edge
BuildingDocuments ==
    LET g1 == chain(<<<<0, 0>>>>)
        g2 == chain(<<<<0, 0>>, <<30, 40>>>>)
        room == Room(1, 1, Px(30), Px(20), Px(30), Px(40), <<Edge(1, 2, None)>>)
        f0 == [NewFloor(0) EXCEPT !.graph = g1]
        f1 == [NewFloor(1) EXCEPT !.graph = g2, !.rooms = <<room>>, !.room_counter = 2]
        good == save_graph(<<f0, f1>>, 1)
        one == save_graph(<<f1>>, 1)
        bad_edge == [node1_id |-> 1, node2_id |-> Absent, weight |-> None]
    IN  {good,
         one,
         [one EXCEPT !.current_floor = Absent],
         [good EXCEPT !.floors = <<>>],
         [good EXCEPT !.has_floors = FALSE],
         [good EXCEPT !.floors[2].key = <<"x">>],
         [good EXCEPT !.floors[1].has_graph = FALSE],
         [good EXCEPT !.floors[2].graph.edges[1] = bad_edge],
         [good EXCEPT !.floors[2].rooms[1].edge = <<bad_edge>>]}

\* add_new_floor with a number given
AddNewFloor(floor_number) ==
    /\ Tick
    /\ ~is_simulating
    /\ ~HasFloor(floors, floor_number)
    /\ floors' = FloorSet(floors, NewFloor(floor_number))
    /\ current_floor' = floor_number
    /\ graph' = CurrentGraph(floors', current_floor')
    /\ op' = Op("add_new_floor", floor_number, FALSE, NoInfo)
    /\ UNCHANGED <<last_path_node, is_simulating, nav_start_point, nav_end_point>>

\* delete_floor on a floor of the list, confirmed; on the last floor it
\* refuses
DeleteFloor(floor_num) ==
    /\ Tick
    /\ ~is_simulating
    /\ HasFloor(floors, floor_num)
    /\ floors' = IF Len(floors) = 1 THEN floors ELSE FloorDel(floors, floor_num)
    /\ current_floor' = IF Len(floors) # 1 /\ current_floor = floor_num
                        THEN FirstFloor(floors') ELSE current_floor
    /\ graph' = CurrentGraph(floors', current_floor')
    /\ op' = Op("delete_floor", floor_num, FALSE, NoInfo)
    /\ UNCHANGED <<last_path_node, is_simulating, nav_start_point, nav_end_point>>

\* delete_current_floor, confirmed; on the last floor it refuses
DeleteCurrentFloor ==
    /\ Tick
    /\ ~is_simulating
    /\ HasFloor(floors, current_floor)
    /\ floors' = IF Len(floors) = 1 THEN floors ELSE FloorDel(floors, current_floor)
    /\ current_floor' = IF Len(floors) = 1 THEN current_floor ELSE FirstFloor(floors')
    /\ graph' = CurrentGraph(floors', current_floor')
    /\ op' = Op("delete_current_floor", current_floor, FALSE, NoInfo)
    /\ UNCHANGED <<last_path_node, is_simulating, nav_start_point, nav_end_point>>

\* switch_to_floor and on_floor_select, on a floor of the list
SwitchToFloor(floor_num) ==
    /\ Tick
    /\ ~is_simulating
    /\ HasFloor(floors, floor_num)
    /\ current_floor' = floor_num
    /\ graph' = CurrentGraph(floors, current_floor')
    /\ op' = Op("switch_to_floor", floor_num, FALSE, NoInfo)
    /\ UNCHANGED <<floors, last_path_node, is_simulating, nav_start_point, nav_end_point>>

\* load_graph of a document of version 2.0; the log holds the document
LoadBuilding(data, seed_no) ==
    LET r == load_graph(data, current_floor, seed_no * 10 + steps)
    IN  /\ Tick
        /\ ~is_simulating
        /\ floors' = r.floors
        /\ current_floor' = r.current_floor
        /\ graph' = CurrentGraph(floors', current_floor')
        /\ op' = Op("load_graph", None, r.raised, [NoInfo EXCEPT !.log = <<data>>])
        /\ UNCHANGED <<last_path_node, is_simulating, nav_start_point, nav_end_point>>

\* merge_graphs of a document holding one graph
MergeGraphs(data) ==
    LET r == merge_with(graph, from_dict(data), Px(merge_offset_x), 0)
    IN  /\ Tick
        /\ ~is_simulating
        /\ graph' = r.graph
        /\ KeepBuilding
        /\ op' = Op("merge_graphs", None, r.raised, Before(graph))
        /\ UNCHANGED <<last_path_node, is_simulating>>

NextBuilding ==
    \/ \E n \in FloorNumbers : AddNewFloor(n)
    \/ \E n \in FloorNumbers : DeleteFloor(n)
    \/ DeleteCurrentFloor
    \/ \E n \in FloorNumbers : SwitchToFloor(n)
    \/ \E data \in BuildingDocuments, seed_no \in UuidSeeds : LoadBuilding(data, seed_no)
    \/ \E data \in MergeDocuments : MergeGraphs(data)
    \/ \E pos \in DocPos : AddNode(pos)

SpecBuilding == Init /\ [][NextBuilding]_vars

\* C17: after any sequence of add-floor, delete-floor, switch-floor and
\* load-document operations, failed loads included, the Building Model holds
\* at least one floor and the current floor is one of its floors
CurrentFloorExists ==
    /\ floors # <<>>
    /\ HasFloor(floors, current_floor)

\* C17 on a document with an empty floor map: the load failed and left the
\* Building Model without a floor
LoadLeftNoFloor ==
    /\ op.name = "load_graph"
    /\ op.raised
    /\ floors = <<>>

\* C18: a load that fails (load_graph, or merge_graphs through
\* Graph.merge_with) leaves floors, graphs, rooms, devices, counters and the
\* current floor as they were before the load
FailedLoadKeepsBuilding ==
    [][(op'.name \in {"load_graph", "merge_graphs"} /\ op'.raised)
          => /\ floors' = floors
             /\ current_floor' = current_floor]_vars

\* C18 on a document whose second floor has the key "x": the load failed
\* after the first floor, and the Building Model holds that floor of the
\* document alone, with the current floor of before
LoadLeftPartialBuilding ==
    /\ op.name = "load_graph"
    /\ op.raised
    /\ Len(floors) = 1
    /\ floors[1].num = 0
    /\ floors[1].graph = chain(<<<<0, 0>>>>)
    /\ current_floor = 1

(***************************************************************************)
(* The router: find_path, recalculate_all_edge_weights and                 *)
(* find_shortest_path_multi_floor with heapq as CPython runs it.           *)
(* Distances and costs are in the model unit; weights of edges are kept as *)
(* squares, as everywhere in this module.                                  *)
(***************************************************************************)
\* math.sqrt, rounded down to the model unit: exact on the square of a whole
\* number of units
RECURSIVE sqrt_search(_, _, _)
sqrt_search(n, lo, hi) ==
    IF lo >= hi THEN lo
    ELSE LET mid == (lo + hi + 1) \div 2
         IN  IF mid * mid <= n THEN sqrt_search(n, mid, hi) ELSE sqrt_search(n, lo, mid - 1)
sqrt(n) == sqrt_search(n, 0, IF n < 46340 THEN n ELSE 46340)

max_distance == 500         \* get_nodes_near_point: max_distance, pixels
elevator_reach == 500       \* reach of an elevator and of its exits, pixels
elevator_cost == 50         \* floor_cost of an elevator, pixels
stairs_cost == 80           \* floor_cost of stairs, pixels

\* the states of the search: (floor, node id), and the goal state ("END", -1)
State(floor_num, node_id) == [goal |-> FALSE, floor |-> floor_num, node |-> node_id]
goal_state == [goal |-> TRUE, floor |-> 0, node |-> -1]

\* a queue entry (cost, floor, node id) of a state
Entry(cost, state) == [cost |-> cost, goal |-> state.goal, floor |-> state.floor,
                       node |-> state.node]

\* a < b on queue entries, as tuples compare: the costs, then the floors,
\* then the node ids; with equal costs the floor "END" against a floor number
\* raises TypeError
tuple_lt(a, b) ==
    IF a.cost # b.cost THEN [raised |-> FALSE, lt |-> a.cost < b.cost]
    ELSE IF a.goal # b.goal THEN [raised |-> TRUE, lt |-> FALSE]
    ELSE IF a.floor # b.floor THEN [raised |-> FALSE, lt |-> a.floor < b.floor]
    ELSE [raised |-> FALSE, lt |-> a.node < b.node]

\* heapq._siftdown(heap, startpos, pos) with newitem taken out of heap[pos];
\* positions count from 0
RECURSIVE siftdown(_, _, _, _)
siftdown(heap, startpos, pos, newitem) ==
    LET parentpos == (pos - 1) \div 2
        parent == heap[parentpos + 1]
        c == tuple_lt(newitem, parent)
    IN  IF pos <= startpos
        THEN [heap |-> [heap EXCEPT ![pos + 1] = newitem], raised |-> FALSE]
        ELSE IF c.raised THEN [heap |-> heap, raised |-> TRUE]
        ELSE IF c.lt
        THEN siftdown([heap EXCEPT ![pos + 1] = parent], startpos, parentpos, newitem)
        ELSE [heap |-> [heap EXCEPT ![pos + 1] = newitem], raised |-> FALSE]

\* heapq._siftup(heap, pos): the smaller child moves up until a leaf, then
\* newitem sifts down from there
RECURSIVE siftup(_, _, _, _)
siftup(heap, startpos, pos, newitem) ==
    LET endpos == Len(heap)
        childpos == 2 * pos + 1
        rightpos == childpos + 1
        c == tuple_lt(heap[childpos + 1], heap[rightpos + 1])
        smaller == IF rightpos < endpos /\ ~c.lt THEN rightpos ELSE childpos
    IN  IF childpos >= endpos THEN siftdown(heap, startpos, pos, newitem)
        ELSE IF rightpos < endpos /\ c.raised THEN [heap |-> heap, raised |-> TRUE]
        ELSE siftup([heap EXCEPT ![pos + 1] = heap[smaller + 1]], startpos, smaller, newitem)

\* heapq.heappush(heap, item)
heappush(heap, item) == siftdown(Append(heap, item), 0, Len(heap), item)

\* heapq.heappop(heap) on a heap that is not empty
heappop(heap) ==
    LET lastelt == heap[Len(heap)]
        rest == SubSeq(heap, 1, Len(heap) - 1)
        r == siftup(rest, 0, 0, lastelt)
    IN  IF rest = <<>> THEN [item |-> lastelt, heap |-> <<>>, raised |-> FALSE]
        ELSE [item |-> heap[1], heap |-> r.heap, raised |-> r.raised]

\* a navigation point, as select_navigation_point returns it
NavPoint(floor_num, data) ==
    [floor |-> floor_num, type |-> IF data.type = "room" THEN "room" ELSE "elevator",
     data |-> data]

\* the squared distance of a node from the connection point of a room or an
\* elevator
ConnectionDist2(node, data) == Sq(node.x - data.connection_x) + Sq(node.y - data.connection_y)

\* list.sort(key=...) on (node id, distance) pairs: by the distance, pairs of
\* one distance in the order they had; the pairs carry the square of the
\* distance, and distances are compared by it
RECURSIVE sort_by_dist(_)
sort_by_dist(pairs) ==
    LET first == CHOOSE i \in DOMAIN pairs :
                    \A j \in DOMAIN pairs :
                        pairs[i].dist2 < pairs[j].dist2 \/ (pairs[i].dist2 = pairs[j].dist2 /\ i <= j)
    IN  IF pairs = <<>> THEN <<>>
        ELSE <<pairs[first]>> \o
             sort_by_dist(SubSeq(pairs, 1, first - 1) \o SubSeq(pairs, first + 1, Len(pairs)))

\* GraphEditorApp.get_nodes_near_point(point) on a floor that exists
get_nodes_near_point(fl, point) ==
    LET g == FloorOf(fl, point.floor).graph
        pair(i) == [node_id |-> g.nodes[i].id, dist |-> sqrt(ConnectionDist2(g.nodes[i], point.data)),
                    dist2 |-> ConnectionDist2(g.nodes[i], point.data)]
        within == SelectSeq([i \in DOMAIN g.nodes |-> pair(i)],
                            LAMBDA p : p.dist2 < Sq(Px(max_distance)))
        closest == CHOOSE i \in DOMAIN g.nodes :
                      \A j \in DOMAIN g.nodes :
                          pair(i).dist2 < pair(j).dist2 \/ (pair(i).dist2 = pair(j).dist2 /\ i <= j)
    IN  IF within # <<>> THEN sort_by_dist(within)
        ELSE IF g.nodes # <<>> THEN <<pair(closest)>>
        ELSE <<>>

RECURSIVE Flatten(_)
Flatten(seqs) == IF seqs = <<>> THEN <<>> ELSE seqs[1] \o Flatten(Tail(seqs))

\* build_elevator_connections()[group_id]: the floors that have an elevator
\* of the group, in the order of self.floors, each with its elevators
elevator_connections(fl, group_id) ==
    SelectSeq([i \in DOMAIN fl |->
                  [floor |-> fl[i].num,
                   elevators |-> SelectSeq(fl[i].elevators, LAMBDA e : e.group_id = group_id)]],
              LAMBDA c : c.elevators # <<>>)

\* the locals of find_shortest_path_multi_floor, and the states popped from
\* the queue in the order of the pops
NewSearch ==
    [queue |-> <<>>, visited |-> {}, came_from |-> <<>>, cost_so_far |-> <<>>,
     found_goal |-> FALSE, best_cost |-> None, raised |-> FALSE, popped |-> <<>>]

\* d[key] = value on a dict kept as a sequence of [key, value] in the order
\* the keys came, and d.get(key)
Put(d, key, value) ==
    IF \E i \in DOMAIN d : d[i].key = key
    THEN [i \in DOMAIN d |-> IF d[i].key = key THEN [key |-> key, value |-> value] ELSE d[i]]
    ELSE Append(d, [key |-> key, value |-> value])
Has(d, key) == \E i \in DOMAIN d : d[i].key = key
Get(d, key) == d[CHOOSE i \in DOMAIN d : d[i].key = key].value

\* "if next_state not in visited ... if new_cost < cost_so_far.get(next_state,
\* inf): cost_so_far[...] = ...; came_from[...] = ...; heappush(...)"
relax(s, step) ==
    LET r == heappush(s.queue, Entry(step.cost, step.state))
    IN  IF s.raised \/ step.state \in s.visited THEN s
        ELSE IF Has(s.cost_so_far, step.state) /\ ~(step.cost < Get(s.cost_so_far, step.state))
        THEN s
        ELSE [s EXCEPT !.cost_so_far = Put(s.cost_so_far, step.state, step.cost),
                       !.came_from = Put(s.came_from, step.state, step.from),
                       !.queue = r.heap,
                       !.raised = r.raised]

RECURSIVE relax_all(_, _)
relax_all(s, pushes) ==
    IF pushes = <<>> THEN s ELSE relax_all(relax(s, pushes[1]), Tail(pushes))

\* what came_from holds for a state: None for a seed, the state before for
\* the goal, (state, edge) for an edge, (state, elevator, other_elev) for a
\* transfer
From(kind, state, edge, elevator, other_elev) ==
    [kind |-> kind, state |-> state, edge |-> edge, elevator |-> elevator,
     other_elev |-> other_elev]
Step(state, cost, from) == [state |-> state, cost |-> cost, from |-> from]

\* the pushes of the goal state from the node popped, in the order of end_nodes
goal_steps(state, current_cost, end_floor, end_nodes) ==
    IF state.floor # end_floor THEN <<>>
    ELSE Flatten([i \in DOMAIN end_nodes |->
                    IF end_nodes[i].node_id = state.node
                    THEN <<Step(goal_state, current_cost + end_nodes[i].dist,
                                From("goal", state, <<>>, <<>>, <<>>))>>
                    ELSE <<>>])

\* the edge loop on the node popped
edge_steps(fl, state, current_cost) ==
    LET g == FloorOf(fl, state.floor).graph
        current_node == NodeOf(g, state.node)
        next_node_id(edge) == IF edge.node1_id = state.node THEN edge.node2_id
                              ELSE IF edge.node2_id = state.node THEN edge.node1_id
                              ELSE None
        edge_cost(edge) ==
            IF edge.weight # None /\ edge.weight # 0 THEN sqrt(edge.weight)
            ELSE sqrt(distance_to(current_node, NodeOf(g, next_node_id(edge))))
    IN  Flatten([i \in DOMAIN g.edges |->
                   LET edge == g.edges[i]
                       next == next_node_id(edge)
                   IN  IF next # None /\ next # 0 /\ HasNode(g, next)
                       THEN <<Step(State(state.floor, next), current_cost + edge_cost(edge),
                                   From("edge", state, <<edge>>, <<>>, <<>>))>>
                       ELSE <<>>])

\* a transfer that costs nothing
floor_cost_Free(elevator) == 0

\* floor_cost = 50 if elevator["type"] == "elevator" else 80
floor_cost(elevator) ==
    IF elevator.type = "elevator" THEN Px(elevator_cost) ELSE Px(stairs_cost)

\* elevator.get("group_id"): None when the elevator has no such key
get_group_id(elevator) == IF elevator.group_id = Absent THEN None ELSE elevator.group_id

\* an elevator loop that does not skip the elevators without a group
elevator_steps_AnyGroup(fl, state, current_cost) ==
    LET floor_data == FloorOf(fl, state.floor)
        current_node == NodeOf(floor_data.graph, state.node)
        exits(elevator, elev_dist, other) ==
            Flatten([k \in DOMAIN other.elevators |->
                LET other_elev == other.elevators[k]
                    other_graph == FloorOf(fl, other.floor).graph
                IN  Flatten([n \in DOMAIN other_graph.nodes |->
                        LET other_node == other_graph.nodes[n]
                            exit_dist2 == ConnectionDist2(other_node, other_elev)
                        IN  IF exit_dist2 < Sq(Px(elevator_reach))
                            THEN <<Step(State(other.floor, other_node.id),
                                        current_cost + elev_dist + floor_cost(elevator) + sqrt(exit_dist2),
                                        From("elevator", state, <<>>, <<elevator>>, <<other_elev>>))>>
                            ELSE <<>>])])
    IN  Flatten([e \in DOMAIN floor_data.elevators |->
            LET elevator == floor_data.elevators[e]
                elev_dist2 == ConnectionDist2(current_node, elevator)
                others == elevator_connections(fl, elevator.group_id)
            IN  IF elev_dist2 < Sq(Px(elevator_reach))
                THEN Flatten([o \in DOMAIN others |->
                        IF others[o].floor = state.floor THEN <<>>
                        ELSE exits(elevator, sqrt(elev_dist2), others[o])])
                ELSE <<>>])

\* the elevator loop on the node popped
elevator_steps(fl, state, current_cost) ==
    LET floor_data == FloorOf(fl, state.floor)
        current_node == NodeOf(floor_data.graph, state.node)
        exits(elevator, elev_dist, other) ==
            Flatten([k \in DOMAIN other.elevators |->
                LET other_elev == other.elevators[k]
                    other_graph == FloorOf(fl, other.floor).graph
                IN  Flatten([n \in DOMAIN other_graph.nodes |->
                        LET other_node == other_graph.nodes[n]
                            exit_dist2 == ConnectionDist2(other_node, other_elev)
                        IN  IF exit_dist2 < Sq(Px(elevator_reach))
                            THEN <<Step(State(other.floor, other_node.id),
                                        current_cost + elev_dist + floor_cost(elevator) + sqrt(exit_dist2),
                                        From("elevator", state, <<>>, <<elevator>>, <<other_elev>>))>>
                            ELSE <<>>])])
    IN  Flatten([e \in DOMAIN floor_data.elevators |->
            LET elevator == floor_data.elevators[e]
                elev_dist2 == ConnectionDist2(current_node, elevator)
                others == elevator_connections(fl, get_group_id(elevator))
            IN  IF elev_dist2 < Sq(Px(elevator_reach)) /\ get_group_id(elevator) # None
                THEN Flatten([o \in DOMAIN others |->
                        IF others[o].floor = state.floor THEN <<>>
                        ELSE exits(elevator, sqrt(elev_dist2), others[o])])
                ELSE <<>>])

\* the loop "while queue" of find_shortest_path_multi_floor
RECURSIVE search_loop(_, _, _, _)
search_loop(fl, s, end_floor, end_nodes) ==
    LET p == heappop(s.queue)
        state == [goal |-> p.item.goal, floor |-> p.item.floor, node |-> p.item.node]
        current_cost == p.item.cost
        s1 == [s EXCEPT !.queue = p.heap, !.visited = s.visited \cup {state},
                        !.popped = Append(s.popped, state)]
        pushes == goal_steps(state, current_cost, end_floor, end_nodes)
                  \o edge_steps(fl, state, current_cost)
                  \o elevator_steps(fl, state, current_cost)
    IN  IF s.raised \/ s.queue = <<>> THEN s
        ELSE IF p.raised THEN [s EXCEPT !.raised = TRUE]
        ELSE IF state \in s.visited
        THEN search_loop(fl, [s EXCEPT !.queue = p.heap, !.popped = Append(s.popped, state)],
                         end_floor, end_nodes)
        ELSE IF state = goal_state
        THEN search_loop(fl, [s1 EXCEPT !.found_goal = TRUE, !.best_cost = current_cost],
                         end_floor, end_nodes)
        ELSE IF ~HasNode(FloorOf(fl, state.floor).graph, state.node)
        THEN search_loop(fl, s1, end_floor, end_nodes)
        ELSE search_loop(fl, relax_all(s1, pushes), end_floor, end_nodes)

\* the seeding loop: every start node is pushed, whatever cost_so_far holds
RECURSIVE seed(_, _, _)
seed(s, start_floor, start_nodes) ==
    LET state == State(start_floor, start_nodes[1].node_id)
        r == heappush(s.queue, Entry(start_nodes[1].dist, state))
    IN  IF s.raised \/ start_nodes = <<>> THEN s
        ELSE seed([s EXCEPT !.queue = r.heap, !.raised = r.raised,
                            !.cost_so_far = Put(s.cost_so_far, state, start_nodes[1].dist),
                            !.came_from = Put(s.came_from, state,
                                              From("seed", state, <<>>, <<>>, <<>>))],
                  start_floor, Tail(start_nodes))

max_path_items == 100       \* reconstruct_path: iteration < 100

\* the states the loop of reconstruct_path comes to in its first k
\* iterations from state on: each is the state came_from holds for the one
\* before; the loop ends at a seed, for which came_from holds None
no_state == [goal |-> TRUE, floor |-> 0, node |-> None - 1]
previous_state(came_from, state) ==
    IF Get(came_from, state).kind = "seed" THEN no_state ELSE Get(came_from, state).state
RECURSIVE states_back(_, _, _)
RECURSIVE states_after(_, _, _, _)
states_back(came_from, state, k) ==
    IF state = no_state \/ k = 0 THEN <<>>
    ELSE IF k = 1 THEN <<state>>
    ELSE CHOOSE states \in {states_after(came_from, first, k \div 2, k - k \div 2) :
                                first \in {states_back(came_from, state, k \div 2)}} : TRUE
states_after(came_from, first, k, more) ==
    IF Len(first) < k THEN first
    ELSE first \o states_back(came_from, previous_state(came_from, first[Len(first)]), more)

\* reconstruct_path, the walk back from came_from[goal_state]: the items
\* from the goal to the start, one for each iteration < max_path_items
path_items(came_from, current, iteration) ==
    LET item(state) ==
            [kind |-> IF Get(came_from, state).kind = "elevator" THEN "elevator" ELSE "node",
             state |-> state, from |-> Get(came_from, state)]
    IN  CHOOSE items \in {[k \in DOMAIN walked |-> item(walked[k])] :
                             walked \in {states_back(came_from, current,
                                                     max_path_items - iteration)}} : TRUE

Reverse(seq) == [i \in DOMAIN seq |-> seq[Len(seq) + 1 - i]]

\* a step of the path returned
PathStep(floor_num, type, node_id, elevator) ==
    [floor |-> floor_num, type |-> type, node |-> node_id, elevator |-> elevator]

\* reconstruct_path, the loop that builds the path from the items: a node
\* item appends a node step when the floor has the node, an elevator item
\* appends elevator_enter on the floor of the last step so far and
\* elevator_exit on the floor of its state
build_path(fl, path, items) ==
    LET appends(item) ==
            \/ item.kind # "node"
            \/ HasNode(FloorOf(fl, item.state.floor).graph, item.state.node)
        prev_floor(its, app, i) ==
            LET before == {j \in 1..(i - 1) : app[j]}
            IN  IF before = {} THEN path[Len(path)].floor
                ELSE its[CHOOSE j \in before : \A k \in before : k <= j].state.floor
        first_step(its, app, i) ==
            IF its[i].kind = "node"
            THEN [appended |-> app[i],
                  step |-> PathStep(its[i].state.floor, "node", its[i].state.node, <<>>)]
            ELSE [appended |-> TRUE,
                  step |-> PathStep(prev_floor(its, app, i), "elevator_enter", None,
                                    its[i].from.elevator)]
        second_step(its, i) ==
            IF its[i].kind = "node"
            THEN [appended |-> FALSE,
                  step |-> PathStep(its[i].state.floor, "node", its[i].state.node, <<>>)]
            ELSE [appended |-> TRUE,
                  step |-> PathStep(its[i].state.floor, "elevator_exit", None,
                                    its[i].from.other_elev)]
        steps_of(its, app) ==
            [k \in 1..(2 * Len(its)) |->
                IF k % 2 = 1 THEN first_step(its, app, (k + 1) \div 2)
                ELSE second_step(its, k \div 2)]
    IN  CHOOSE built \in UNION UNION {{{path \o [k \in DOMAIN appended |-> appended[k].step] :
                    appended \in {SelectSeq(steps_of(its, app), LAMBDA s : s.appended)}} :
                    app \in {[i \in DOMAIN its |-> appends(its[i])]}} :
                    its \in {items}} : TRUE

\* GraphEditorApp.reconstruct_path(came_from, ("END", -1), start_point, end_point)
reconstruct_path(fl, came_from, start_point, end_point) ==
    LET items == Reverse(path_items(came_from, Get(came_from, goal_state).state, 0))
    IN  Append(build_path(fl, <<PathStep(start_point.floor, "start", None, <<>>)>>, items),
               PathStep(end_point.floor, "end", None, <<>>))

\* what a route query came to: an itinerary, UnreachableAnchor (no node near
\* an endpoint: error box, None), NoRoute (None), or an exception that left
\* the handler; items are the links of came_from from the goal to the start
RouteResult(outcome, cost, path, items) ==
    [outcome |-> outcome, cost |-> cost, path |-> path, items |-> items]

\* the end of find_shortest_path_multi_floor, on the locals s the loop left:
\* "if found_goal: return self.reconstruct_path(...)", "return None"
search_result(fl, s, start_point, end_point) ==
    IF s.raised THEN RouteResult("raised", None, <<>>, <<>>)            \* TypeError
    ELSE IF s.found_goal
    THEN RouteResult("itinerary", s.best_cost,
                     reconstruct_path(fl, s.came_from, start_point, end_point),
                     path_items(s.came_from, Get(s.came_from, goal_state).state, 0))
    ELSE RouteResult("NoRoute", None, <<>>, <<>>)

\* find_shortest_path_multi_floor from the candidates on: the two checks of
\* step 1, and step 3
dijkstra(fl, start_point, end_point, start_nodes, end_nodes) ==
    IF start_nodes = <<>> \/ end_nodes = <<>>
    THEN RouteResult("UnreachableAnchor", None, <<>>, <<>>)
    ELSE search_result(fl,
                       search_loop(fl, seed(NewSearch, start_point.floor, start_nodes),
                                   end_point.floor, end_nodes),
                       start_point, end_point)

\* GraphEditorApp.find_shortest_path_multi_floor(start_point, end_point)
find_shortest_path_multi_floor(fl, start_point, end_point) ==
    IF ~HasFloor(fl, start_point.floor) \/ ~HasFloor(fl, end_point.floor)
    THEN RouteResult("raised", None, <<>>, <<>>)                         \* KeyError
    ELSE dijkstra(fl, start_point, end_point,
                  get_nodes_near_point(fl, start_point), get_nodes_near_point(fl, end_point))

\* a refresh that also drops the edges between nodes at one point
recalculate_all_edge_weights_DropsZero(fl) ==
    [f \in DOMAIN fl |->
        LET g == fl[f].graph
            length(e) == IF HasNode(g, e.node1_id) /\ HasNode(g, e.node2_id)
                         THEN distance_to(NodeOf(g, e.node1_id), NodeOf(g, e.node2_id))
                         ELSE e.weight
        IN  [fl[f] EXCEPT !.graph.edges =
                SelectSeq([i \in DOMAIN g.edges |-> [g.edges[i] EXCEPT !.weight = length(g.edges[i])]],
                          LAMBDA e : e.weight # 0)]]

\* GraphEditorApp.recalculate_all_edge_weights
recalculate_all_edge_weights(fl) ==
    [f \in DOMAIN fl |->
        LET g == fl[f].graph
        IN  [fl[f] EXCEPT !.graph.edges =
                [i \in DOMAIN g.edges |->
                    IF HasNode(g, g.edges[i].node1_id) /\ HasNode(g, g.edges[i].node2_id)
                    THEN [g.edges[i] EXCEPT !.weight =
                             distance_to(NodeOf(g, g.edges[i].node1_id),
                                         NodeOf(g, g.edges[i].node2_id))]
                    ELSE g.edges[i]]]]

\* find_path that searches on the weights as they stand and refreshes them
\* afterwards
find_path_SearchFirst(fl, start_point, end_point) ==
    [floors |-> recalculate_all_edge_weights(fl), searched |-> fl,
     result |-> find_shortest_path_multi_floor(fl, start_point, end_point)]

\* find_path that does not refresh the weights
find_path_NoRefresh(fl, start_point, end_point) ==
    [floors |-> fl, searched |-> fl,
     result |-> find_shortest_path_multi_floor(fl, start_point, end_point)]

\* what find_path does after the refresh: the floors it leaves, the floors
\* the search runs on, and what the search comes to
path_on(refreshed, start_point, end_point) ==
    [floors |-> refreshed, searched |-> refreshed,
     result |-> find_shortest_path_multi_floor(refreshed, start_point, end_point)]

\* GraphEditorApp.find_path with both points selected
find_path(fl, start_point, end_point) ==
    path_on(recalculate_all_edge_weights(fl), start_point, end_point)

\* the rooms and the elevators of the current floor in the order
\* select_navigation_point looks through them
NavTargets(fl, floor_num) ==
    IF HasFloor(fl, floor_num)
    THEN FloorOf(fl, floor_num).rooms \o FloorOf(fl, floor_num).elevators
    ELSE <<>>

\* the buildings the router is asked about.  Corridor: one floor, nodes
\* (0,0) - (30,0), rooms at 0, 10 and 30 along it.  Remote: one floor, nodes
\* (0,0) - (30,0) - (30,570), rooms 600 to the left and to the right of the
\* first node, farther than max_distance from every node.  Tower: two floors
\* with the corridor, one elevator of one group at (30,0) on each, a room at
\* 10 on floor 0 and a room at 25 on floor 1.
RoomAt(floor_num, counter, x) == Room(floor_num, counter, Px(x), Px(20), Px(x), 0, <<>>)
ElevatorAt(floor_num, counter, x) ==
    Elevator(floor_num, counter, "elevator", 1, Px(x), Px(20), Px(x), 0, <<>>)
Corridor ==
    <<[NewFloor(0) EXCEPT !.graph = chain(<<<<0, 0>>, <<30, 0>>>>),
                          !.rooms = <<RoomAt(0, 1, 0), RoomAt(0, 2, 10), RoomAt(0, 3, 30)>>,
                          !.room_counter = 4]>>
Remote ==
    <<[NewFloor(0) EXCEPT !.graph = chain(<<<<0, 0>>, <<30, 0>>, <<30, 570>>>>),
                          !.rooms = <<RoomAt(0, 1, -600), RoomAt(0, 2, 600)>>,
                          !.room_counter = 3]>>
Tower ==
    <<[NewFloor(0) EXCEPT !.graph = chain(<<<<0, 0>>, <<30, 0>>>>),
                          !.rooms = <<RoomAt(0, 1, 10)>>, !.room_counter = 2,
                          !.elevators = <<ElevatorAt(0, 1, 30)>>, !.elevator_counter = 2],
      [NewFloor(1) EXCEPT !.graph = chain(<<<<0, 0>>, <<30, 0>>>>),
                          !.rooms = <<RoomAt(1, 1, 25)>>, !.room_counter = 2,
                          !.elevators = <<ElevatorAt(1, 1, 30)>>, !.elevator_counter = 2]>>
RouteBuildings == {Corridor, Remote, Tower}

MovePos == {<<60, 0>>}              \* where a node is dragged to, pixels
RouteWeights == {Sq(Px(7))}         \* weight given to addEdge

InitRoute ==
    /\ \E b \in RouteBuildings : floors = b
    /\ current_floor = 0
    /\ graph = CurrentGraph(floors, current_floor)
    /\ last_path_node = None
    /\ is_simulating = FALSE
    /\ op = Op("init", None, FALSE, NoInfo)
    /\ steps = 0
    /\ nav_start_point = <<>>
    /\ nav_end_point = <<>>

\* canvas_click in mode nav_select_start on a room or an elevator of the
\* current floor
SelectStart(k) ==
    /\ Tick
    /\ k \in DOMAIN NavTargets(floors, current_floor)
    /\ nav_start_point' = <<NavPoint(current_floor, NavTargets(floors, current_floor)[k])>>
    /\ op' = Op("nav_select_start", None, FALSE, NoInfo)
    /\ UNCHANGED <<graph, floors, current_floor, nav_end_point, last_path_node, is_simulating>>

\* canvas_click in mode nav_select_end
SelectEnd(k) ==
    /\ Tick
    /\ k \in DOMAIN NavTargets(floors, current_floor)
    /\ nav_end_point' = <<NavPoint(current_floor, NavTargets(floors, current_floor)[k])>>
    /\ op' = Op("nav_select_end", None, FALSE, NoInfo)
    /\ UNCHANGED <<graph, floors, current_floor, nav_start_point, last_path_node, is_simulating>>

\* canvas_click and canvas_drag in mode move: the node picked is put where
\* the pointer is, its edges keep their weights
MoveNode(node_id, pos) ==
    /\ Tick
    /\ ~is_simulating
    /\ HasNode(graph, node_id)
    /\ graph' = [graph EXCEPT !.nodes =
                    [i \in DOMAIN graph.nodes |->
                        IF graph.nodes[i].id = node_id
                        THEN [graph.nodes[i] EXCEPT !.x = Px(pos[1]), !.y = Px(pos[2])]
                        ELSE graph.nodes[i]]]
    /\ KeepBuilding
    /\ op' = Op("move_node", node_id, FALSE, NoInfo)
    /\ UNCHANGED <<last_path_node, is_simulating>>

grid_size == 50             \* self.grid_size, pixels

\* round(v / self.grid_size) * self.grid_size: the nearest grid line, on a
\* tie the one of even number, as Python's round does
round_to_grid(v) ==
    LET cell == Px(grid_size)
        q == v \div cell
        r == v % cell
    IN  IF 2 * r < cell THEN q * cell
        ELSE IF 2 * r > cell THEN (q + 1) * cell
        ELSE IF q % 2 = 0 THEN q * cell
        ELSE (q + 1) * cell

\* align_all_to_grid on a graph that has nodes: every node goes to the
\* nearest grid point, the edges keep their weights
AlignAllToGrid ==
    /\ Tick
    /\ graph.nodes # <<>>
    /\ graph' = [graph EXCEPT !.nodes =
                    [i \in DOMAIN graph.nodes |->
                        [graph.nodes[i] EXCEPT !.x = round_to_grid(graph.nodes[i].x),
                                               !.y = round_to_grid(graph.nodes[i].y)]]]
    /\ KeepBuilding
    /\ op' = Op("align_all_to_grid", None, FALSE, NoInfo)
    /\ UNCHANGED <<last_path_node, is_simulating>>

\* find_path with both points selected; the log holds what this query came
\* to and, when the handler before it was find_path too, what that one came to
FindPath ==
    /\ Tick
    /\ nav_start_point # <<>>
    /\ nav_end_point # <<>>
    /\ \E r \in {find_path(floors, nav_start_point[1], nav_end_point[1])} :
           /\ floors' = r.floors
           /\ op' = Op("find_path", r.result.cost, r.result.outcome = "raised",
                       [NoInfo EXCEPT !.log =
                           <<[result |-> r.result, searched |-> r.searched]>>
                           \o (IF op.name = "find_path" THEN <<op.info.log[1]>> ELSE <<>>)])
    /\ graph' = CurrentGraph(floors', current_floor)
    /\ UNCHANGED <<current_floor, nav_start_point, nav_end_point, last_path_node, is_simulating>>

NextRoute ==
    \/ \E k \in 1..3 : SelectStart(k)
    \/ \E k \in 1..3 : SelectEnd(k)
    \/ \E n \in FloorNumbers : SwitchToFloor(n)
    \/ \E n \in FloorNumbers : DeleteFloor(n)
    \/ \E a \in NodeIds(graph), pos \in MovePos : MoveNode(a, pos)
    \/ \E a \in NodeIds(graph) : RemoveNode(a)
    \/ FindPath

SpecRoute == InitRoute /\ [][NextRoute]_vars

\* the router after edits of the graph: nodes moved, all nodes aligned to
\* the grid, edges added with a weight given, nodes merged; the rooms of
\* Remote are selected, the one on the right as start and the one on the
\* left as goal
InitWeights ==
    /\ floors = Remote
    /\ current_floor = 0
    /\ graph = CurrentGraph(floors, current_floor)
    /\ last_path_node = None
    /\ is_simulating = FALSE
    /\ op = Op("init", None, FALSE, NoInfo)
    /\ steps = 0
    /\ nav_start_point = <<NavPoint(0, NavTargets(floors, 0)[2])>>
    /\ nav_end_point = <<NavPoint(0, NavTargets(floors, 0)[1])>>

NextWeights ==
    \/ \E a \in NodeIds(graph), pos \in MovePos : MoveNode(a, pos)
    \/ \E a \in NodeIds(graph), b \in NodeIds(graph), w \in RouteWeights :
          a < b /\ AddEdge(a, b, w)
    \/ \E a \in NodeIds(graph), b \in NodeIds(graph) : a # b /\ MergeNodes(a, b)
    \/ AlignAllToGrid
    \/ FindPath

SpecWeights == InitWeights /\ [][NextWeights]_vars

\* the query that ran last
LastRoute == op.info.log[1].result

\* the two points of the query that ran last
QueryStart == nav_start_point[1]
QueryEnd == nav_end_point[1]

\* C13: every route query runs to completion and yields an itinerary or one
\* of the two reported failures, UnreachableAnchor and NoRoute; none ends in
\* an exception that find_path does not handle.
RouteCompletes ==
    op.name = "find_path" =>
        LastRoute.outcome \in {"itinerary", "UnreachableAnchor", "NoRoute"}

\* the query from the room at the first node of Corridor to the room at its
\* second node: the goal entry (30, "END", -1) meets the seed (30, 0, 2) in
\* the queue and the comparison of "END" with 0 raises TypeError
HeapTieRaised ==
    /\ op.name = "find_path"
    /\ floors = Corridor
    /\ QueryStart.data.connection_x = 0
    /\ QueryEnd.data.connection_x = Px(30)
    /\ LastRoute.outcome = "raised"

\* a query whose start was selected on a floor that has been deleted since:
\* self.floors[start_floor] raises KeyError
DeletedFloorRaised ==
    /\ op.name = "find_path"
    /\ ~HasFloor(floors, QueryStart.floor)
    /\ LastRoute.outcome = "raised"

\* the states a walk goes through: the nodes of the floors
WalkStates(fl) ==
    UNION {{State(fl[i].num, fl[i].graph.nodes[n].id) : n \in DOMAIN fl[i].graph.nodes} :
              i \in DOMAIN fl}

\* the least of a set of costs, None for the empty set
MinCost(costs) == IF costs = {} THEN None ELSE CHOOSE c \in costs : \A d \in costs : c <= d

\* of a set of (state, cost) the least cost of every state
Cheapest(reached) ==
    {r \in reached : \A q \in reached : q.state = r.state => r.cost <= q.cost}

\* the single steps of a walk from a state reached: the floor edges at the
\* node and the transfers from it, as the states they lead to with the costs
\* summed up
WalkSteps(fl, r) ==
    LET out == edge_steps(fl, r.state, r.cost) \o elevator_steps(fl, r.state, r.cost)
    IN  {[state |-> out[i].state, cost |-> out[i].cost] : i \in DOMAIN out}

\* the states that walks of at most rounds more steps lead to, each with the
\* least cost of such a walk, from those reached so far
RECURSIVE WalkCosts(_, _, _)
WalkCosts(fl, reached, rounds) ==
    IF rounds = 0 THEN reached
    ELSE WalkCosts(fl,
                   Cheapest(reached \cup UNION {WalkSteps(fl, r) : r \in reached}),
                   rounds - 1)

\* the least total cost over the walks from a start candidate to a goal
\* candidate: anchor to the first node, the steps, the last node to the
\* anchor; None when there is no walk
MinWalkCost(fl, start_point, end_point) ==
    LET start_nodes == get_nodes_near_point(fl, start_point)
        end_nodes == get_nodes_near_point(fl, end_point)
        seeds == {[state |-> State(start_point.floor, start_nodes[i].node_id),
                   cost |-> start_nodes[i].dist] : i \in DOMAIN start_nodes}
        reached == WalkCosts(fl, Cheapest(seeds), Cardinality(WalkStates(fl)))
    IN  MinCost(UNION {{r.cost + end_nodes[i].dist :
                           i \in {j \in DOMAIN end_nodes :
                                      State(end_point.floor, end_nodes[j].node_id) = r.state}} :
                       r \in reached})

\* C11: whenever a walk exists from a start candidate to a goal candidate the
\* query returns an itinerary whose total cost is the least over all walks
\* and candidate pairs, and NoRoute is reported only when no walk exists.
RouteOptimal ==
    (op.name = "find_path" /\ HasFloor(floors, QueryStart.floor) /\ HasFloor(floors, QueryEnd.floor)) =>
        LET least == MinWalkCost(floors, QueryStart, QueryEnd)
        IN  /\ least # None => (LastRoute.outcome = "itinerary" /\ LastRoute.cost = least)
            /\ LastRoute.outcome = "NoRoute" => least = None

\* the query from the room 600 to the left of Remote to the room 600 to its
\* right: the walk node 1 - node 2 costs 1200 with the anchors, and the query
\* raises
WalkWithoutRoute ==
    /\ op.name = "find_path"
    /\ floors = Remote
    /\ QueryStart.data.connection_x = Px(0 - 600)
    /\ QueryEnd.data.connection_x = Px(600)
    /\ MinWalkCost(floors, QueryStart, QueryEnd) = Px(1200)
    /\ LastRoute.outcome = "raised"

\* the query that ran just before the last one, when no other handler ran
\* between the two
RepeatedQuery == op.name = "find_path" /\ Len(op.info.log) = 2
PreviousRoute == op.info.log[2].result

\* C12: two queries for the same start and goal, run one after the other on a
\* Building Model that nothing else touched, give the same outcome, and the
\* same total cost when the outcome is an itinerary.
RouterDeterminism ==
    RepeatedQuery =>
        /\ LastRoute.outcome = PreviousRoute.outcome
        /\ LastRoute.outcome = "itinerary" => LastRoute.cost = PreviousRoute.cost

\* Remote with node 2 moved to (60,0) and its edges still weighted 30 and 570
\* when the first query starts: both queries go from the room on the right
\* over node 2 and node 1, 540 + 60 + 600
RepeatedQueryAfterMove ==
    /\ RepeatedQuery
    /\ HasFloor(floors, 0)
    /\ HasNode(FloorOf(floors, 0).graph, 2)
    /\ NodeOf(FloorOf(floors, 0).graph, 2).x = Px(60)
    /\ QueryStart.data.connection_x = Px(600)
    /\ QueryEnd.data.connection_x = Px(0 - 600)
    /\ LastRoute.outcome = "itinerary"
    /\ LastRoute.cost = Px(1200)
    /\ PreviousRoute.cost = Px(1200)

\* a building of two floors joined by one group that has one elevator on
\* each floor
TwoFloorsOneGroup(fl) ==
    /\ Len(fl) = 2
    /\ \A i \in DOMAIN fl : Len(fl[i].elevators) = 1 /\ fl[i].elevators[1].type = "elevator"
    /\ fl[1].elevators[1].group_id = fl[2].elevators[1].group_id
    /\ fl[1].elevators[1].group_id # None

\* the path has one elevator_enter step, on the floor of the start, and one
\* elevator_exit step, on the floor of the goal, right after it
OneTransfer(path, start_floor, end_floor) ==
    \E i \in 1..(Len(path) - 1) :
        /\ path[i].type = "elevator_enter" /\ path[i].floor = start_floor
        /\ path[i + 1].type = "elevator_exit" /\ path[i + 1].floor = end_floor
        /\ \A j \in DOMAIN path : /\ path[j].type = "elevator_enter" => j = i
                                  /\ path[j].type = "elevator_exit" => j = i + 1

RECURSIVE SumCosts(_)
SumCosts(costs) == IF costs = <<>> THEN 0 ELSE costs[1] + SumCosts(Tail(costs))

\* what one link of the itinerary costs by the coordinates: the length of
\* the edge walked, or for a transfer the way to the elevator, 50, and the
\* way from the elevator of the other floor
LinkCost(fl, item) ==
    LET node == NodeOf(FloorOf(fl, item.state.floor).graph, item.state.node)
        before == NodeOf(FloorOf(fl, item.from.state.floor).graph, item.from.state.node)
    IN  IF item.from.kind = "seed" THEN 0
        ELSE IF item.from.kind = "elevator"
        THEN sqrt(ConnectionDist2(before, item.from.elevator[1])) + Px(elevator_cost)
             + sqrt(ConnectionDist2(node, item.from.other_elev[1]))
        ELSE sqrt(distance_to(before, node))

\* the cost of the itinerary by the coordinates: start anchor to the first
\* node, the links, the last node to the goal anchor
ItineraryCost(fl, start_point, end_point, items) ==
    LET first == items[Len(items)].state
        last == items[1].state
    IN  sqrt(ConnectionDist2(NodeOf(FloorOf(fl, first.floor).graph, first.node), start_point.data))
        + SumCosts([i \in DOMAIN items |-> LinkCost(fl, items[i])])
        + sqrt(ConnectionDist2(NodeOf(FloorOf(fl, last.floor).graph, last.node), end_point.data))

FallsBack(fl, point) ==
    LET g == FloorOf(fl, point.floor).graph
    IN  /\ g.nodes # <<>>
        /\ \A i \in DOMAIN g.nodes : ConnectionDist2(g.nodes[i], point.data) >= Sq(Px(max_distance))

\* the candidate list of the point is one node, and no node of the floor is
\* nearer to the anchor
OneNearestCandidate(fl, point) ==
    LET g == FloorOf(fl, point.floor).graph
        candidates == get_nodes_near_point(fl, point)
    IN  /\ Len(candidates) = 1
        /\ HasNode(g, candidates[1].node_id)
        /\ \A i \in DOMAIN g.nodes :
              ConnectionDist2(NodeOf(g, candidates[1].node_id), point.data)
                  <= ConnectionDist2(g.nodes[i], point.data)

\* C15: when the floor of an endpoint has a node and none within 500 of the
\* anchor, the candidate list of that endpoint is exactly one node, one of
\* least distance to the anchor, and the query still returns a route where a
\* walk between the candidates exists; UnreachableAnchor is reported only
\* when the floor graph of an endpoint has no node.
CandidateFallback ==
    (op.name = "find_path" /\ HasFloor(floors, QueryStart.floor) /\ HasFloor(floors, QueryEnd.floor)) =>
        /\ \A point \in {QueryStart, QueryEnd} :
              FallsBack(floors, point) =>
                  /\ OneNearestCandidate(floors, point)
                  /\ MinWalkCost(floors, QueryStart, QueryEnd) # None
                         => LastRoute.outcome = "itinerary"
        /\ LastRoute.outcome = "UnreachableAnchor" =>
              \E point \in {QueryStart, QueryEnd} : FloorOf(floors, point.floor).graph.nodes = <<>>

\* Remote, from the room on the left to the room on the right: each endpoint
\* falls back to its nearest node, node 1 at 600 and node 2 at 570, the two
\* are joined by an edge, and the query raises
FallbackRaised ==
    /\ op.name = "find_path"
    /\ floors = Remote
    /\ FallsBack(floors, QueryStart) /\ FallsBack(floors, QueryEnd)
    /\ get_nodes_near_point(floors, QueryStart)[1].node_id = 1
    /\ get_nodes_near_point(floors, QueryEnd)[1].node_id = 2
    /\ LastRoute.outcome = "raised"

\* the floors the search of the last query ran on
Searched == op.info.log[1].searched

WithoutWeights(f) ==
    [f EXCEPT !.graph.edges = [i \in DOMAIN f.graph.edges |->
                                  [f.graph.edges[i] EXCEPT !.weight = None]]]

\* C22: a route query, whether it succeeds or fails, leaves the floors, the
\* nodes with coordinates and labels, the edge sequence, the id counters, the
\* rooms, the devices, the counters and the current floor as they were;
\* only the weights of edges may differ.
RouterOnlyReads ==
    [][op'.name = "find_path" =>
          /\ Len(floors') = Len(floors)
          /\ \A i \in DOMAIN floors : WithoutWeights(floors'[i]) = WithoutWeights(floors[i])
          /\ current_floor' = current_floor
          /\ nav_start_point' = nav_start_point
          /\ nav_end_point' = nav_end_point]_vars

\* a query that returned a route on Remote after both ends of the first
\* edge were dragged to (60,0): the edge is still there, its weight is 0
QueryKeptZeroEdge ==
    /\ op.name = "find_path"
    /\ LastRoute.outcome = "itinerary"
    /\ Len(floors) = 1
    /\ Len(floors[1].graph.nodes) = 3
    /\ Len(floors[1].graph.edges) = 2
    /\ floors[1].graph.nodes[1].x = Px(60)
    /\ floors[1].graph.nodes[2].x = Px(60)
    /\ floors[1].graph.edges[1].weight = 0
    /\ Len(floors[1].rooms) = 2

\* the states the search of the last query popped from its queue, in order
Popped ==
    search_loop(Searched,
                seed(NewSearch, QueryStart.floor, get_nodes_near_point(Searched, QueryStart)),
                QueryEnd.floor, get_nodes_near_point(Searched, QueryEnd)).popped

\* C26: once the goal state has been popped from the queue, the search pops
\* no further state: the goal state is the last one popped.
GoalPopEndsSearch ==
    (op.name = "find_path" /\ LastRoute.outcome = "itinerary") =>
        \A i \in DOMAIN Popped : Popped[i] = goal_state => i = Len(Popped)

\* Corridor, from the room at 0 to the room at 10: node 1 is popped, then the
\* goal at cost 10, then node 2, seeded at 30
PoppedAfterGoal ==
    /\ op.name = "find_path"
    /\ floors = Corridor
    /\ QueryStart.data.connection_x = 0
    /\ QueryEnd.data.connection_x = Px(10)
    /\ LastRoute.outcome = "itinerary"
    /\ Popped = <<State(0, 1), goal_state, State(0, 2)>>

room_size == 15             \* delete_room_at: half of the side of a room's square, pixels
click_radius == 20          \* delete_elevator_at: pixels

\* delete_room_at(x, y) on the rooms of a floor: the first room whose square
\* holds the click is popped; 0 stands for no such room
room_hit(rooms, x, y) ==
    LET hits == {i \in DOMAIN rooms :
                    /\ rooms[i].x - Px(room_size) <= x /\ x <= rooms[i].x + Px(room_size)
                    /\ rooms[i].y - Px(room_size) <= y /\ y <= rooms[i].y + Px(room_size)}
    IN  IF hits = {} THEN 0 ELSE CHOOSE i \in hits : \A j \in hits : i <= j

\* delete_elevator_at(x, y): the first elevator not farther than click_radius
elevator_hit(elevators, x, y) ==
    LET hits == {i \in DOMAIN elevators :
                    Sq(x - elevators[i].x) + Sq(y - elevators[i].y) <= Sq(Px(click_radius))}
    IN  IF hits = {} THEN 0 ELSE CHOOSE i \in hits : \A j \in hits : i <= j

\* a sequence without its element i
Without(seq, i) == [j \in 1..(Len(seq) - 1) |-> IF j < i THEN seq[j] ELSE seq[j + 1]]

\* canvas_click in mode delete_room at pos
DeleteRoomAt(pos) ==
    /\ Tick
    /\ HasFloor(floors, current_floor)
    /\ LET hit == room_hit(FloorOf(floors, current_floor).rooms, Px(pos[1]), Px(pos[2]))
       IN  /\ floors' = [i \in DOMAIN floors |->
                            IF floors[i].num = current_floor /\ hit # 0
                            THEN [floors[i] EXCEPT !.rooms = Without(@, hit)]
                            ELSE floors[i]]
           /\ op' = Op("delete_room_at", hit # 0, FALSE, NoInfo)
    /\ UNCHANGED <<graph, current_floor, nav_start_point, nav_end_point,
                   last_path_node, is_simulating>>

\* canvas_click in mode delete_elevator at pos
DeleteElevatorAt(pos) ==
    /\ Tick
    /\ HasFloor(floors, current_floor)
    /\ LET hit == elevator_hit(FloorOf(floors, current_floor).elevators,
                               Px(pos[1]), Px(pos[2]))
       IN  /\ floors' = [i \in DOMAIN floors |->
                            IF floors[i].num = current_floor /\ hit # 0
                            THEN [floors[i] EXCEPT !.elevators = Without(@, hit)]
                            ELSE floors[i]]
           /\ op' = Op("delete_elevator_at", hit # 0, FALSE, NoInfo)
    /\ UNCHANGED <<graph, current_floor, nav_start_point, nav_end_point,
                   last_path_node, is_simulating>>

\* where the canvas is clicked to delete: on the room of floor 0 of Tower,
\* and between the room of floor 1 and the elevators
ClickPos == {<<10, 20>>, <<35, 20>>}

\* the navigation points under edits of the building: points are selected,
\* floors, rooms and elevators deleted, documents loaded
InitNav ==
    /\ floors = Tower
    /\ current_floor = 0
    /\ graph = CurrentGraph(floors, current_floor)
    /\ last_path_node = None
    /\ is_simulating = FALSE
    /\ op = Op("init", None, FALSE, NoInfo)
    /\ steps = 0
    /\ nav_start_point = <<>>
    /\ nav_end_point = <<>>

NextNav ==
    \/ \E k \in 1..2 : SelectStart(k)
    \/ \E k \in 1..2 : SelectEnd(k)
    \/ \E n \in FloorNumbers : SwitchToFloor(n)
    \/ \E n \in FloorNumbers : DeleteFloor(n)
    \/ \E pos \in ClickPos : DeleteRoomAt(pos)
    \/ \E pos \in ClickPos : DeleteElevatorAt(pos)
    \/ \E data \in BuildingDocuments, seed_no \in UuidSeeds : LoadBuilding(data, seed_no)

SpecNav == InitNav /\ [][NextNav]_vars

\* the point names a floor of the building and a room or an elevator that
\* floor has
PointLive(point) ==
    /\ HasFloor(floors, point.floor)
    /\ \E k \in DOMAIN NavTargets(floors, point.floor) :
          /\ NavTargets(floors, point.floor)[k].id = point.data.id
          /\ NavTargets(floors, point.floor)[k].type = point.data.type

\* C29: the selected start and goal name a floor the building has and a room
\* or an elevator that is still on that floor
NavPointsLive ==
    /\ nav_start_point # <<>> => PointLive(nav_start_point[1])
    /\ nav_end_point # <<>> => PointLive(nav_end_point[1])

\* the room selected as start has just been deleted, its floor is still there
DeletedRoomSelected ==
    /\ op.name = "delete_room_at"
    /\ op.ret = TRUE
    /\ nav_start_point # <<>>
    /\ nav_start_point[1].type = "room"
    /\ HasFloor(floors, nav_start_point[1].floor)
    /\ ~PointLive(nav_start_point[1])

\* the seed of the handler that runs now: its tokens differ from the tokens
\* every other handler of the behaviour draws
uuid_run(seed_no) == seed_no * 10 + steps

\* closest_point_on_line(px, py, x1, y1, x2, y2) for a segment along an axis
\* or of no length: the point of the segment nearest to (px, py), and the
\* square of its distance
Clamp(v, a, b) ==
    LET lo == IF a < b THEN a ELSE b
        hi == IF a < b THEN b ELSE a
    IN  IF v < lo THEN lo ELSE IF v > hi THEN hi ELSE v
closest_point_on_line(px, py, x1, y1, x2, y2) ==
    LET closest_x == IF x1 = x2 THEN x1 ELSE Clamp(px, x1, x2)
        closest_y == IF y1 = y2 THEN y1 ELSE Clamp(py, y1, y2)
    IN  [x |-> closest_x, y |-> closest_y,
         distance2 |-> Sq(px - closest_x) + Sq(py - closest_y)]

\* the edges of add_elevator_at's first loop: those with both nodes, each
\* with its closest point; the closest is the first of the least distance
edge_points(g, x, y) ==
    LET with_nodes == SelectSeq(g.edges, LAMBDA e : HasNode(g, e.node1_id) /\ HasNode(g, e.node2_id))
    IN  [i \in DOMAIN with_nodes |->
            LET node1 == NodeOf(g, with_nodes[i].node1_id)
                node2 == NodeOf(g, with_nodes[i].node2_id)
            IN  [edge |-> with_nodes[i], node1 |-> node1, node2 |-> node2,
                 point |-> closest_point_on_line(x, y, node1.x, node1.y, node2.x, node2.y)]]
closest_edge(points) ==
    points[CHOOSE i \in DOMAIN points :
              \A j \in DOMAIN points :
                  \/ points[i].point.distance2 < points[j].point.distance2
                  \/ points[i].point.distance2 = points[j].point.distance2 /\ i <= j]

offset_dist == 30           \* add_elevator_at: pixels from the edge to the elevator
tolerance == 30             \* add_elevator_at: pixels, per coordinate

\* where add_elevator_at puts the elevator: offset_dist from the closest
\* point across the edge, on the side of the click; the edge runs along an axis
Sign(v) == IF v < 0 THEN -1 ELSE IF v > 0 THEN 1 ELSE 0
elevator_position(c, x, y) ==
    LET dx == c.node2.x - c.node1.x
        dy == c.node2.y - c.node1.y
        test1 == [x |-> c.point.x - Sign(dy) * Px(offset_dist),
                  y |-> c.point.y + Sign(dx) * Px(offset_dist)]
        test2 == [x |-> c.point.x + Sign(dy) * Px(offset_dist),
                  y |-> c.point.y - Sign(dx) * Px(offset_dist)]
    IN  IF Sq(x - test1.x) + Sq(y - test1.y) < Sq(x - test2.x) + Sq(y - test2.y)
        THEN test1 ELSE test2

\* the group loop of add_elevator_at over the floors after the first k: on
\* each floor but the current one the first elevator within tolerance gives
\* its group_id, which raises KeyError when it has no such key; the loop
\* over the floors ends at a group_id that is not None
RECURSIVE nearby_group(_, _, _, _)
nearby_group(fl, cf, elevator_x, elevator_y) ==
    LET others == fl[1].elevators
        near == {i \in DOMAIN others :
                    /\ Abs(others[i].x - elevator_x) < Px(tolerance)
                    /\ Abs(others[i].y - elevator_y) < Px(tolerance)}
        first == CHOOSE i \in near : \A j \in near : i <= j
    IN  IF fl = <<>> THEN [group_id |-> None, raised |-> FALSE]
        ELSE IF fl[1].num = cf \/ near = {}
        THEN nearby_group(Tail(fl), cf, elevator_x, elevator_y)
        ELSE IF others[first].group_id = Absent
        THEN [group_id |-> None, raised |-> TRUE]                          \* KeyError
        ELSE IF others[first].group_id # None
        THEN [group_id |-> others[first].group_id, raised |-> FALSE]
        ELSE nearby_group(Tail(fl), cf, elevator_x, elevator_y)

\* add_elevator_at(x, y, elevator_type) on a floor whose edges run along the
\* axes; done says whether an elevator was appended
add_elevator_at(fl, cf, x, y, elevator_type, token) ==
    LET floor_data == FloorOf(fl, cf)
        points == edge_points(floor_data.graph, x, y)
        c == closest_edge(points)
        at == elevator_position(c, x, y)
        found == nearby_group(fl, cf, at.x, at.y)
        group_id == IF found.group_id = None THEN token ELSE found.group_id
        elevator == Elevator(cf, floor_data.elevator_counter, elevator_type, group_id,
                             at.x, at.y, c.point.x, c.point.y, <<c.edge>>)
    IN  IF floor_data.graph.edges = <<>> \/ points = <<>>
        THEN [floors |-> fl, raised |-> FALSE, done |-> FALSE]
        ELSE IF c.node1.x = c.node2.x /\ c.node1.y = c.node2.y
        THEN [floors |-> fl, raised |-> FALSE, done |-> FALSE]
        ELSE IF found.raised
        THEN [floors |-> fl, raised |-> TRUE, done |-> FALSE]
        ELSE [floors |-> FloorSet(fl, [floor_data EXCEPT
                                          !.elevators = Append(@, elevator),
                                          !.elevator_counter = @ + 1]),
              raised |-> FALSE, done |-> TRUE]

\* the elevators the grouping dialog lists, as (floor, index) pairs, and the
\* selection in the order the handlers walk it: floors ascending, then index
Listed(fl) ==
    UNION {{<<fl[i].num, k>> : k \in DOMAIN fl[i].elevators} : i \in DOMAIN fl}
RECURSIVE selected_elevators(_, _)
selected_elevators(fl, sel) ==
    IF sel = {} THEN <<>>
    ELSE LET first == CHOOSE s \in sel :
                          \A t \in sel : s[1] < t[1] \/ (s[1] = t[1] /\ s[2] <= t[2])
         IN  <<first>> \o selected_elevators(fl, sel \ {first})

\* ungroup_selected: the key group_id is deleted from the selected elevators
\* that have a group
ungroup_selected(fl, sel) ==
    [i \in DOMAIN fl |->
        [fl[i] EXCEPT !.elevators =
            [k \in DOMAIN fl[i].elevators |->
                IF <<fl[i].num, k>> \in sel /\ get_group_id(fl[i].elevators[k]) # None
                THEN [fl[i].elevators[k] EXCEPT !.group_id = Absent]
                ELSE fl[i].elevators[k]]]]

\* connect_selected: with two elevators of two floors selected, all get the
\* group of the first selected that has one, else a new token
connect_selected(fl, sel, token) ==
    LET selected == selected_elevators(fl, sel)
        groups == SelectSeq([n \in DOMAIN selected |->
                                get_group_id(FloorOf(fl, selected[n][1]).elevators[selected[n][2]])],
                            LAMBDA g : g # None)
        group_id == IF groups = <<>> THEN token ELSE groups[1]
    IN  IF Cardinality(sel) < 2 \/ Cardinality({s[1] : s \in sel}) < 2 THEN fl
        ELSE [i \in DOMAIN fl |->
                 [fl[i] EXCEPT !.elevators =
                     [k \in DOMAIN fl[i].elevators |->
                         IF <<fl[i].num, k>> \in sel
                         THEN [fl[i].elevators[k] EXCEPT !.group_id = group_id]
                         ELSE fl[i].elevators[k]]]]

\* str(uuid.uuid4()) in a handler that edits the building: a token no
\* elevator of the building carries
TokensOf(fl) ==
    UNION {{fl[i].elevators[k].group_id : k \in DOMAIN fl[i].elevators} : i \in DOMAIN fl}
NewToken(fl) == 1 + CHOOSE t \in TokensOf(fl) \cup {0} : \A u \in TokensOf(fl) \cup {0} : u <= t

\* canvas_click in mode add_elevator or add_stairs at pos; the log holds
\* the building before it
AddElevatorAt(pos, elevator_type) ==
    /\ Tick
    /\ HasFloor(floors, current_floor)
    /\ \E r \in {add_elevator_at(floors, current_floor, Px(pos[1]), Px(pos[2]),
                                 elevator_type, NewToken(floors))} :
           /\ floors' = r.floors
           /\ op' = Op("add_elevator_at", r.done, r.raised,
                       [NoInfo EXCEPT !.log = <<floors>>])
    /\ UNCHANGED <<graph, current_floor, nav_start_point, nav_end_point,
                   last_path_node, is_simulating>>

\* the button "ungroup" of the grouping dialog with sel selected
UngroupSelected(sel) ==
    /\ Tick
    /\ sel \subseteq Listed(floors)
    /\ floors' = ungroup_selected(floors, sel)
    /\ op' = Op("ungroup_selected", None, FALSE, NoInfo)
    /\ UNCHANGED <<graph, current_floor, nav_start_point, nav_end_point,
                   last_path_node, is_simulating>>

\* the button "connect" of the grouping dialog with sel selected
ConnectSelected(sel) ==
    /\ Tick
    /\ sel \subseteq Listed(floors)
    /\ floors' = connect_selected(floors, sel, NewToken(floors))
    /\ op' = Op("connect_selected", None, FALSE, NoInfo)
    /\ UNCHANGED <<graph, current_floor, nav_start_point, nav_end_point,
                   last_path_node, is_simulating>>

\* load_graph, the branch of the older format with one floor, data["graph"]
\* and flat rooms and elevators: self.floors = {} and self.current_floor = 0
\* come first, the except clause leaves what was assigned until the exception
load_graph_legacy(data, uuid_seed) ==
    IF \/ from_dict_raises(data.graph)
       \/ load_entries_raises(data.rooms)
       \/ load_entries_raises(data.elevators)
    THEN [floors |-> <<>>, current_floor |-> 0, raised |-> TRUE]
    ELSE [floors |-> <<[num |-> 0,
                        graph |-> from_dict(data.graph),
                        rooms |-> load_entries(data.rooms, 0, "room", uuid_seed),
                        elevators |-> load_entries(data.elevators, 0, "elevator", uuid_seed),
                        room_counter |-> IF data.room_counter = Absent THEN 1
                                         ELSE data.room_counter,
                        elevator_counter |-> IF data.elevator_counter = Absent THEN 1
                                             ELSE data.elevator_counter]>>,
          current_floor |-> 0, raised |-> FALSE]

\* load_graph of a document of the older format
LoadLegacy(data, seed_no) ==
    LET r == load_graph_legacy(data, uuid_run(seed_no))
    IN  /\ Tick
        /\ ~is_simulating
        /\ floors' = r.floors
        /\ current_floor' = r.current_floor
        /\ graph' = CurrentGraph(floors', current_floor')
        /\ op' = Op("load_graph", None, r.raised, [NoInfo EXCEPT !.log = <<data>>])
        /\ UNCHANGED <<last_path_node, is_simulating, nav_start_point, nav_end_point>>

\* documents whose rooms and elevators lack keys: Tower as save_graph writes
\* it, without the group_id of the elevators, and without the ids and the
\* floors too; and floor 0 of each in the older format
DeviceDocuments ==
    LET saved == save_graph(Tower, 0)
        strip(entries, keys) ==
            [i \in DOMAIN entries |->
                [entries[i] EXCEPT
                    !.group_id = IF "group_id" \in keys /\ @ # None THEN Absent ELSE @,
                    !.id = IF "id" \in keys THEN <<>> ELSE @,
                    !.floor = IF "floor" \in keys THEN Absent ELSE @]]
        without(keys) ==
            [saved EXCEPT !.floors =
                [i \in DOMAIN saved.floors |->
                    [saved.floors[i] EXCEPT !.rooms = strip(@, keys),
                                            !.elevators = strip(@, keys)]]]
    IN  {saved, without({"group_id"}), without({"group_id", "id", "floor"})}
LegacyDocuments ==
    {[graph |-> data.floors[1].graph, rooms |-> data.floors[1].rooms,
      elevators |-> data.floors[1].elevators, room_counter |-> Absent,
      elevator_counter |-> data.floors[1].elevator_counter] : data \in DeviceDocuments}

\* where the canvas is clicked to add an elevator, and what is added: an
\* elevator above the right end of the corridor, stairs below its left end
ElevatorClicks == {<<30, 10, "elevator">>, <<0, -10, "stairs">>}
MaxSelected == 2                    \* elevators selected in the grouping dialog
Selections == {sel \in SUBSET Listed(floors) : sel # {} /\ Cardinality(sel) <= MaxSelected}

\* the elevators of Tower under edits: elevators are added, grouped and
\* ungrouped, routes asked for from the room of floor 0 to the room of
\* floor 1
InitDevices ==
    /\ floors = Tower
    /\ current_floor = 0
    /\ graph = CurrentGraph(floors, current_floor)
    /\ last_path_node = None
    /\ is_simulating = FALSE
    /\ op = Op("init", None, FALSE, NoInfo)
    /\ steps = 0
    /\ nav_start_point = <<NavPoint(0, Tower[1].rooms[1])>>
    /\ nav_end_point = <<NavPoint(1, Tower[2].rooms[1])>>

NextDevices ==
    \/ \E n \in FloorNumbers : SwitchToFloor(n)
    \/ \E click \in ElevatorClicks : AddElevatorAt(<<click[1], click[2]>>, click[3])
    \/ \E sel \in Selections : UngroupSelected(sel)
    \/ \E sel \in Selections : ConnectSelected(sel)
    \/ FindPath

SpecDevices == InitDevices /\ [][NextDevices]_vars

\* the building through save and load: elevators are ungrouped, documents
\* with and without keys loaded, in the format of version 2.0 and the older
NextLoad ==
    \/ \E n \in FloorNumbers : SwitchToFloor(n)
    \/ \E sel \in Selections : UngroupSelected(sel)
    \/ \E data \in DeviceDocuments, seed_no \in UuidSeeds : LoadBuilding(data, seed_no)
    \/ \E data \in LegacyDocuments, seed_no \in UuidSeeds : LoadLegacy(data, seed_no)

SpecLoad == InitDevices /\ [][NextLoad]_vars

\* the elevator add_elevator_at has just appended, and the elevators of the
\* other floors as they were before it
AddedElevator ==
    LET elevators == FloorOf(floors, current_floor).elevators
    IN  elevators[Len(elevators)]
OtherElevators(fl, floor_num) ==
    UNION {{fl[i].elevators[k] : k \in DOMAIN fl[i].elevators} :
              i \in {j \in DOMAIN fl : fl[j].num # floor_num}}

\* C28: add_elevator_at on a floor with an edge of non-zero length completes
\* and appends an elevator with a group token: the token of an elevator of
\* another floor within tolerance of it in x and in y, otherwise a token no
\* other elevator carries
AddElevatorGroups ==
    op.name = "add_elevator_at" =>
        /\ ~op.raised
        /\ op.ret = TRUE
        /\ get_group_id(AddedElevator) # None
        /\ \/ \E other \in OtherElevators(op.info.log[1], current_floor) :
                 /\ Abs(other.x - AddedElevator.x) < Px(tolerance)
                 /\ Abs(other.y - AddedElevator.y) < Px(tolerance)
                 /\ other.group_id = AddedElevator.group_id
           \/ AddedElevator.group_id \notin TokensOf(op.info.log[1])

\* an elevator is added above the right end of the corridor of floor 0 after
\* the elevator of floor 1 has been ungrouped: KeyError
AddNearUngroupedRaised ==
    /\ op.name = "add_elevator_at"
    /\ op.raised
    /\ current_floor = 0
    /\ Len(floors) = 2
    /\ floors[2].elevators[1].group_id = Absent
    /\ Len(floors[1].elevators) = 1

\* C21: no itinerary has an elevator_enter or elevator_exit step for an
\* elevator without a group token, and the steps come in pairs, enter then
\* exit, that name two elevators of different floors with the same token
TransfersWithinGroup ==
    (op.name = "find_path" /\ LastRoute.outcome = "itinerary") =>
        LET path == LastRoute.path
        IN  \A i \in DOMAIN path :
                /\ path[i].type \in {"elevator_enter", "elevator_exit"} =>
                       get_group_id(path[i].elevator[1]) # None
                /\ path[i].type = "elevator_enter" =>
                       /\ i < Len(path)
                       /\ path[i + 1].type = "elevator_exit"
                       /\ path[i + 1].elevator[1].group_id = path[i].elevator[1].group_id
                       /\ path[i + 1].elevator[1].floor # path[i].elevator[1].floor
                       /\ path[i].elevator[1].floor = path[i].floor
                       /\ path[i + 1].elevator[1].floor = path[i + 1].floor
                /\ path[i].type = "elevator_exit" =>
                       i > 1 /\ path[i - 1].type = "elevator_enter"

\* a route between the floors while an elevator of the start floor is
\* without a group: the transfer goes through another elevator
TransferPastUngrouped ==
    /\ op.name = "find_path"
    /\ LastRoute.outcome = "itinerary"
    /\ \E k \in DOMAIN FloorOf(floors, 0).elevators :
          FloorOf(floors, 0).elevators[k].group_id = Absent
    /\ \E i \in DOMAIN LastRoute.path : LastRoute.path[i].type = "elevator_enter"

\* every elevator of both floors is without a group, and the query finds no
\* route between the floors
NoRoutePastUngrouped ==
    /\ op.name = "find_path"
    /\ LastRoute.outcome = "NoRoute"
    /\ \A i \in DOMAIN floors : \A k \in DOMAIN floors[i].elevators :
          floors[i].elevators[k].group_id = Absent

\* C25: two loads of the same document, one right after the other, leave the
\* same building: the same floors with the same rooms and elevators, ids,
\* floors and group tokens included, and the same current floor
LoaderDeterministic ==
    [][(/\ op.name = "load_graph" /\ op'.name = "load_graph"
        /\ op'.info.log = op.info.log
        /\ ~op'.raised)
       => (floors' = floors /\ current_floor' = current_floor)]_vars

\* a document of the older format whose elevator has no group_id, id or
\* floor has been loaded: the elevator got a token, the id of its position
\* and floor 0
LoadedWithoutGroups ==
    /\ op.name = "load_graph"
    /\ ~op.raised
    /\ "elevators" \in DOMAIN op.info.log[1]
    /\ \A k \in DOMAIN op.info.log[1].elevators : op.info.log[1].elevators[k].group_id = Absent
    /\ Len(floors) = 1
    /\ Len(floors[1].elevators) = 1
    /\ op.info.log[1].elevators[1].id = <<>>
    /\ floors[1].elevators[1].group_id >= 100
    /\ floors[1].elevators[1].id = <<"elevator", 0, 1>>
    /\ floors[1].elevators[1].floor = 0

\* C27: loading the document save_graph writes gives the building back: the
\* same floors, each with the same graph, rooms, elevators and counters (an
\* elevator without a group stays without one), and the same current floor
SaveLoadRoundTrip ==
    \A seed_no \in UuidSeeds :
        LET r == load_graph(save_graph(floors, current_floor), current_floor, uuid_run(seed_no))
        IN  /\ ~r.raised
            /\ r.floors = floors
            /\ r.current_floor = current_floor

\* an elevator has just been ungrouped: it has no key group_id, and the
\* document save_graph writes has none for it
UngroupedToSave ==
    /\ op.name = "ungroup_selected"
    /\ Len(floors) = 2
    /\ floors[2].elevators[1].group_id = Absent
    /\ save_graph(floors, current_floor).floors[2].elevators[1].group_id = Absent
    /\ floors[1].elevators[1].group_id = 1

\* a corridor of n nodes one pixel apart along the x axis, with a room 600
\* pixels before its first node and a room 600 pixels after its last: each
\* room is farther than max_distance from every node, and its only
\* candidate is the node at its end of the corridor
LongGraph(n) ==
    [nodes |-> [i \in 1..n |-> Node(Px(i - 1), 0, i, EmptyLabel)],
     edges |-> [i \in 1..(n - 1) |-> Edge(i, i + 1, Sq(Px(1)))],
     next_node_id |-> n + 1]
LongCorridor(n) ==
    <<[NewFloor(0) EXCEPT !.graph = LongGraph(n),
                          !.rooms = <<RoomAt(0, 1, -600), RoomAt(0, 2, n + 599)>>,
                          !.room_counter = 3]>>

\* came_from as the search leaves it after it walked the nodes of walk, one
\* after the other, on floor 0: None for the first, for each other node the
\* node before it with the edge between them, for the goal the last node
walk_came_from(g, walk) ==
    [i \in 1..(Len(walk) + 1) |->
        IF i = 1
        THEN [key |-> State(0, walk[1]),
              value |-> From("seed", State(0, walk[1]), <<>>, <<>>, <<>>)]
        ELSE IF i = Len(walk) + 1
        THEN [key |-> goal_state,
              value |-> From("goal", State(0, walk[Len(walk)]), <<>>, <<>>, <<>>)]
        ELSE [key |-> State(0, walk[i]),
              value |-> From("edge", State(0, walk[i - 1]),
                             <<g.edges[CHOOSE e \in DOMAIN g.edges :
                                          SameEdge(g.edges[e], walk[i - 1], walk[i])]>>,
                             <<>>, <<>>)]]

\* the walk of the search on a corridor: from the node at the end of the
\* start room to the node at the other end
corridor_walk(g, start_point) ==
    IF start_point.data.connection_x < 0
    THEN [i \in DOMAIN g.nodes |-> g.nodes[i].id]
    ELSE [i \in DOMAIN g.nodes |-> g.nodes[Len(g.nodes) + 1 - i].id]

\* reconstruct_path on the came_from of a corridor; the log holds the route
\* as that of find_path does
ReconstructPath ==
    /\ Tick
    /\ nav_start_point # <<>>
    /\ nav_end_point # <<>>
    /\ nav_start_point # nav_end_point
    /\ \E came_from \in {walk_came_from(graph, corridor_walk(graph, nav_start_point[1]))} :
        \E path \in {reconstruct_path(floors, came_from, nav_start_point[1],
                                       nav_end_point[1])} :
        \E items \in {path_items(came_from, Get(came_from, goal_state).state, 0)} :
            op' = Op("reconstruct_path", None, FALSE,
                     [NoInfo EXCEPT !.log =
                         <<[result |-> RouteResult("itinerary", None, path, items),
                            searched |-> floors]>>])
    /\ UNCHANGED <<graph, floors, current_floor, nav_start_point, nav_end_point,
                   last_path_node, is_simulating>>

ExtraNodes == 1                     \* nodes of a corridor beyond max_path_items
ShortChain == 6                     \* nodes of the corridors find_path runs on

\* reconstruct_path on short corridors and on corridors of about
\* max_path_items nodes, from either end to the other; on the short ones
\* the whole query runs too
InitLong ==
    /\ \E n \in (2..ShortChain) \cup ((max_path_items - 1)..(max_path_items + ExtraNodes)) :
          floors = LongCorridor(n)
    /\ current_floor = 0
    /\ graph = CurrentGraph(floors, current_floor)
    /\ last_path_node = None
    /\ is_simulating = FALSE
    /\ op = Op("init", None, FALSE, NoInfo)
    /\ steps = 0
    /\ \E k \in 1..2 :
          /\ nav_start_point = <<NavPoint(0, floors[1].rooms[k])>>
          /\ nav_end_point = <<NavPoint(0, floors[1].rooms[3 - k])>>

NextLong ==
    \/ ReconstructPath
    \/ Len(graph.nodes) <= ShortChain /\ FindPath

SpecLong == InitLong /\ [][NextLong]_vars

\* C24: the first node step of every itinerary is a start candidate on the
\* start floor, each node step that follows a node step is joined to it by
\* an edge of the floor, and the edge a link records joins its two nodes
ReconstructionReachesSeed ==
    (op.name \in {"find_path", "reconstruct_path"} /\ LastRoute.outcome = "itinerary") =>
        LET path == LastRoute.path
            candidates == get_nodes_near_point(Searched, QueryStart)
        IN  /\ path[2].type = "node"
            /\ path[2].floor = QueryStart.floor
            /\ \E c \in DOMAIN candidates : candidates[c].node_id = path[2].node
            /\ \A i \in 2..(Len(path) - 1) :
                  (path[i].type = "node" /\ path[i + 1].type = "node") =>
                      /\ path[i + 1].floor = path[i].floor
                      /\ \E e \in DOMAIN FloorOf(Searched, path[i].floor).graph.edges :
                            SameEdge(FloorOf(Searched, path[i].floor).graph.edges[e],
                                     path[i].node, path[i + 1].node)
            /\ \A k \in DOMAIN LastRoute.items :
                  LastRoute.items[k].from.kind = "edge" =>
                      SameEdge(LastRoute.items[k].from.edge[1],
                               LastRoute.items[k].from.state.node, LastRoute.items[k].state.node)

\* the route along a corridor of max_path_items + 1 nodes, reconstructed:
\* the itinerary has max_path_items node steps and begins at the second node
ReconstructionCutShort ==
    /\ op.name = "reconstruct_path"
    /\ Len(graph.nodes) = max_path_items + 1
    /\ QueryStart.data.connection_x < 0
    /\ Len(LastRoute.path) = max_path_items + 2
    /\ LastRoute.path[2].node = 2
    /\ get_nodes_near_point(Searched, QueryStart)[1].node_id = 1

(***************************************************************************)
(* find_edge_crossing as a function of the graph, the last trace node and  *)
(* the pointer position.                                                   *)
(***************************************************************************)
CrossingNodes == <<<<0, 0>>, <<100, 0>>, <<-40, 20>>, <<100, 20>>, <<75, -45>>, <<75, -15>>,
                   <<50, -50>>, <<50, 50>>, <<10, -50>>>>       \* pixels
CrossingEdges == <<<<1, 2>>, <<3, 4>>, <<5, 6>>>>

\* two long corridors one above the other, a short edge, and three nodes a
\* trace can stand on
CrossingGraph ==
    LET nodes == [i \in DOMAIN CrossingNodes |->
                     Node(Px(CrossingNodes[i][1]), Px(CrossingNodes[i][2]), i, <<"P", i - 1>>)]
    IN  [nodes |-> nodes,
         edges |-> [k \in DOMAIN CrossingEdges |->
                       Edge(CrossingEdges[k][1], CrossingEdges[k][2],
                            distance_to(nodes[CrossingEdges[k][1]], nodes[CrossingEdges[k][2]]))],
         next_node_id |-> Len(CrossingNodes) + 1]

SegmentEnds == {10, 50, 75, 90} \X {-50, -30, 0, 50}    \* pointer positions, pixels

\* a trace stands on a node of the graph, the pointer is at a position
InitCrossing ==
    /\ graph = CrossingGraph
    /\ floors = OneFloor(graph)
    /\ current_floor = 0
    /\ last_path_node \in 1..Len(CrossingNodes)
    /\ is_simulating = TRUE
    /\ \E pos \in SegmentEnds : op = Op("pointer", None, FALSE, [NoInfo EXCEPT !.log = <<pos>>])
    /\ steps = 0
    /\ nav_start_point = <<>>
    /\ nav_end_point = <<>>

\* find_edge_crossing(last_path_node.x, last_path_node.y, x, y), as canvas_drag
\* calls it
FindEdgeCrossing ==
    /\ Tick
    /\ op.name = "pointer"
    /\ op' = Op("find_edge_crossing",
                find_edge_crossing(graph, last_path_node, NodeOf(graph, last_path_node).x,
                                   NodeOf(graph, last_path_node).y,
                                   Px(op.info.log[1][1]), Px(op.info.log[1][2])),
                FALSE, op.info)
    /\ UNCHANGED <<graph, last_path_node, is_simulating, floors, current_floor,
                   nav_start_point, nav_end_point>>

NextCrossing == FindEdgeCrossing

SpecCrossing == InitCrossing /\ [][NextCrossing]_vars

\* c and d lie strictly on opposite sides of the line through a and b
OppositeSides(a, b, c, d) ==
    \/ Orient(a, b, c) < 0 /\ Orient(a, b, d) > 0
    \/ Orient(a, b, c) > 0 /\ Orient(a, b, d) < 0

\* the edge at position i of the graph meets the four conditions for the
\* segment from the node last to pos, with the point p: it is at least
\* min_edge_length long, not incident to last, crossed by the segment at a
\* point interior to both, and p is min_crossing_distance or more from both
\* of its ends
EdgeQualifies(g, last, pos, i, p) ==
    LET node1 == NodeOf(g, g.edges[i].node1_id)
        node2 == NodeOf(g, g.edges[i].node2_id)
    IN  /\ Sq(node1.x - node2.x) + Sq(node1.y - node2.y) >= Sq(Px(min_edge_length))
        /\ g.edges[i].node1_id # last
        /\ g.edges[i].node2_id # last
        /\ OppositeSides(<<node1.x, node1.y>>, <<node2.x, node2.y>>,
                         <<NodeOf(g, last).x, NodeOf(g, last).y>>, <<Px(pos[1]), Px(pos[2])>>)
        /\ OppositeSides(<<NodeOf(g, last).x, NodeOf(g, last).y>>, <<Px(pos[1]), Px(pos[2])>>,
                         <<node1.x, node1.y>>, <<node2.x, node2.y>>)
        /\ p # <<>>
        /\ Sq(p[1] - node1.x) + Sq(p[2] - node1.y) >= Sq(Px(min_crossing_distance))
        /\ Sq(p[1] - node2.x) + Sq(p[2] - node2.y) >= Sq(Px(min_crossing_distance))

\* the point where the segment from last to pos meets the line of edge i
CrossingPoint(g, last, pos, i) ==
    get_intersection_point(NodeOf(g, last).x, NodeOf(g, last).y, Px(pos[1]), Px(pos[2]),
                           NodeOf(g, g.edges[i].node1_id).x, NodeOf(g, g.edges[i].node1_id).y,
                           NodeOf(g, g.edges[i].node2_id).x, NodeOf(g, g.edges[i].node2_id).y)

\* C23: the edge find_edge_crossing returns is at least min_edge_length long,
\* not incident to the last trace node, crossed by the segment, and the point
\* returned is min_crossing_distance or more from both its ends; nothing is
\* returned when no edge of the graph meets the four conditions
CrossingQualifies ==
    op.name = "find_edge_crossing" =>
        /\ op.ret.edge # None =>
              EdgeQualifies(graph, last_path_node, op.info.log[1], op.ret.edge, op.ret.point)
        /\ (\A i \in DOMAIN graph.edges :
               ~EdgeQualifies(graph, last_path_node, op.info.log[1], i,
                              CrossingPoint(graph, last_path_node, op.info.log[1], i)))
               => op.ret.edge = None

\* C23 with the trace on (50,50) and the pointer at (50,0), on the corridor
\* (0,0)-(100,0): the segment ends on the corridor and does not cross it, and
\* find_edge_crossing returned the corridor with the point (50,0)
TouchedEdgeReturned ==
    /\ op.name = "find_edge_crossing"
    /\ last_path_node = 8
    /\ op.info.log[1] = <<50, 0>>
    /\ op.ret.edge = 1
    /\ op.ret.point = <<Px(50), 0>>
    /\ ~EdgeQualifies(graph, last_path_node, op.info.log[1], 1, op.ret.point)

\* the trace from (10,-50) to (10,50) meets the first corridor 10 px from
\* its end and the second 50 px from its end: the second is returned
LaterEdgeReturned ==
    /\ op.name = "find_edge_crossing"
    /\ last_path_node = 9
    /\ op.info.log[1] = <<10, 50>>
    /\ op.ret.edge = 2
    /\ op.ret.point = <<Px(10), Px(20)>>

(***************************************************************************)
(* What simplifyPaths keeps.                                               *)
(***************************************************************************)
\* the number of edges of g that touch the node
Degree(g, id) == Cardinality({i \in DOMAIN g.edges : Touches(g.edges[i], id)})

JunctionLeft ==
    /\ op.name = "simplify_paths"
    /\ op.info.before_nodes = 4
    /\ op.info.before_edges = 4
    /\ op.ret = 1
    /\ op.info.log[1].node.id = 3
    /\ Neighbours(graph, 1) = {2}
    /\ Neighbours(graph, 2) = {1, 4}

====
